---- MODULE Spec2Model ----
(***************************************************************************)
(* Student/room combination tool (LeverX_hw2): raw-data validation, the    *)
(* combination service, the JSON/XML exporters and the CLI controller.     *)
(*                                                                         *)
(* Encoding of Python values                                               *)
(*   None            the integer -1 (ids and room references are >= 0)     *)
(*   dict            a record whose DOMAIN is the set of keys present      *)
(*   non-dict        the record [scalar |-> 0]                             *)
(*   list            the record [list |-> <<e1, ..., en>>]                 *)
(*   non-list        the record [scalar |-> 0]                             *)
(*   a number        the record [scalar |-> 1]: not a list, has no len()   *)
(*   str (message)   a sequence of string pieces, concatenation is \o      *)
(*   exception       a record [type, msg, path]                            *)
(***************************************************************************)
EXTENDS Integers, Sequences, FiniteSets, TLC

VARIABLES
    students,     \* the students argument (a raw value)
    rooms,        \* the rooms argument (a raw value)
    op,           \* which operation of the library has been applied
    ret,          \* its return value
    exc,          \* the exception it raised, NoExc when it returned
    pc,           \* position of the controller run / of the export call
    argv,         \* the command line given to CLIController.run
    studentsFile, \* the file at args.students_file
    roomsFile,    \* the file at args.rooms_file
    fmt,          \* args.output_format
    data,         \* the records handed to the exporter
    dirExists,    \* whether the parent directory of args.output_file exists
    outFile,      \* the file at args.output_file
    calls,        \* the stage calls made so far, in order
    exitCode,     \* the value CLIController.run returned, NoExit while running
    exporters,    \* DataExporterFactory._exporters
    loaders,      \* DataLoaderFactory._loaders
    studentsPath, \* args.students_file / the file_path given to load_students
    roomsPath,    \* args.rooms_file / the file_path given to load_rooms
    heap          \* the list and dict objects of a call, by address

libVars == <<op, ret>>
runVars == <<pc, argv, studentsFile, roomsFile, fmt, data, dirExists, outFile, calls, exitCode>>
factoryVars == <<exporters, loaders>>
pathVars == <<studentsPath, roomsPath>>
heapVars == <<heap>>
vars == <<students, rooms, op, ret, exc, pc, argv, studentsFile, roomsFile, fmt, data,
          dirExists, outFile, calls, exitCode, exporters, loaders, studentsPath, roomsPath, heap>>

----------------------------------------------------------------------------
(* Bounds of the model *)

MaxStudents == 2
MaxRooms == 2

----------------------------------------------------------------------------
(* Python values *)

None == -1
Scalar == [scalar |-> 0]
Number == [scalar |-> 1]
List(items) == [list |-> items]
IsList(v) == "list" \in DOMAIN v
IsDict(v) == "scalar" \notin DOMAIN v
Items(v) == v.list
Has(d, k) == k \in DOMAIN d
Get(d, k, default) == IF k \in DOMAIN d THEN d[k] ELSE default

\* str(i) for the indices and ids the model uses
Str(i) == IF i = None THEN "None" ELSE <<"0", "1", "2", "3", "4", "5", "6", "7", "8", "9">>[i + 1]

\* str.strip() on the strings the model uses: only the strings of blanks
\* have leading or trailing whitespace
strip(s) == IF s \in {"", " ", "  "} THEN "" ELSE s

NoExc == [type |-> "", msg |-> <<>>, path |-> ""]
NoPath == ""
Raise(type, msg, path) == [type |-> type, msg |-> msg, path |-> path]
ValidationError(msg) == Raise("ValidationError", msg, NoPath)
DataLoadError(msg, file_path) == Raise("DataLoadError", msg, file_path)
DataExportError(msg, output_path) == Raise("DataExportError", msg, output_path)
OSError(msg) == Raise("OSError", msg, NoPath)
TypeError(msg) == Raise("TypeError", msg, NoPath)

\* a name holding a lone surrogate (the JSON text "\ud800"): json.load accepts
\* it, the utf-8 encoder of the output file and the XML writer do not
LoneSurrogate == "\\ud800"

----------------------------------------------------------------------------
(* utils/validation.py *)

\* the loop of validate_students_data from position i on (1-based here; the
\* message carries the 0-based index of enumerate)
\* variant: reports the position counted from one
RECURSIVE validate_students_loop_OneBased(_, _)
validate_students_loop_OneBased(items, i) ==
    IF i > Len(items) THEN NoExc
    ELSE IF ~IsDict(items[i])
        THEN ValidationError(<<"Student at index ", Str(i), " must be a dictionary">>)
    ELSE IF ~Has(items[i], "id")
        THEN ValidationError(<<"Student at index ", Str(i), " missing required '", "id", "' field">>)
    ELSE IF ~Has(items[i], "name")
        THEN ValidationError(<<"Student at index ", Str(i), " missing required '", "name", "' field">>)
    ELSE validate_students_loop_OneBased(items, i + 1)

RECURSIVE validate_students_loop(_, _)
validate_students_loop(items, i) ==
    IF i > Len(items) THEN NoExc
    ELSE IF ~IsDict(items[i])
        THEN ValidationError(<<"Student at index ", Str(i - 1), " must be a dictionary">>)
    ELSE IF ~Has(items[i], "id")
        THEN ValidationError(<<"Student at index ", Str(i - 1), " missing required '", "id", "' field">>)
    ELSE IF ~Has(items[i], "name")
        THEN ValidationError(<<"Student at index ", Str(i - 1), " missing required '", "name", "' field">>)
    ELSE validate_students_loop(items, i + 1)

validate_students_data(s) ==
    IF ~IsList(s) THEN ValidationError(<<"Students data must be a list">>)
    ELSE validate_students_loop(Items(s), 1)

RECURSIVE validate_rooms_loop(_, _)
validate_rooms_loop(items, i) ==
    IF i > Len(items) THEN NoExc
    ELSE IF ~IsDict(items[i])
        THEN ValidationError(<<"Room at index ", Str(i - 1), " must be a dictionary">>)
    ELSE IF ~Has(items[i], "id")
        THEN ValidationError(<<"Room at index ", Str(i - 1), " missing required '", "id", "' field">>)
    ELSE IF ~Has(items[i], "name")
        THEN ValidationError(<<"Room at index ", Str(i - 1), " missing required '", "name", "' field">>)
    ELSE validate_rooms_loop(items, i + 1)

validate_rooms_data(r) ==
    IF ~IsList(r) THEN ValidationError(<<"Rooms data must be a list">>)
    ELSE validate_rooms_loop(Items(r), 1)

----------------------------------------------------------------------------
(* models/combined_room.py *)

CombinedRoom_to_dict(id, name, studentList) ==
    [id |-> id, name |-> name, students |-> studentList]

----------------------------------------------------------------------------
(* services/room_student_service.py *)

Range(s) == {s[i] : i \in 1..Len(s)}

\* [x.get('id') for x in items if x.get('id') is not None]
RECURSIVE non_null_ids(_)
non_null_ids(items) ==
    IF items = <<>> THEN <<>>
    ELSE LET id == Get(Head(items), "id", None)
         IN (IF id # None THEN <<id>> ELSE <<>>) \o non_null_ids(Tail(items))

\* variant: a reference to a room that does not exist is rejected
validate_business_rules_Strict(s, r) ==
    LET room_ids == non_null_ids(Items(r))
        student_ids == non_null_ids(Items(s))
    IN IF Len(room_ids) # Cardinality(Range(room_ids))
           THEN ValidationError(<<"Duplicate room IDs found">>)
       ELSE IF Len(student_ids) # Cardinality(Range(student_ids))
           THEN ValidationError(<<"Duplicate student IDs found">>)
       ELSE IF \E i \in 1..Len(Items(s)) :
                   /\ Get(Items(s)[i], "room", None) # None
                   /\ Get(Items(s)[i], "room", None) \notin Range(room_ids)
           THEN ValidationError(<<"Student references unknown room">>)
       ELSE NoExc

\* variant: the student check reads the room ids again
validate_business_rules_RoomsTwice(s, r) ==
    LET room_ids == non_null_ids(Items(r))
        student_ids == non_null_ids(Items(r))
    IN IF Len(room_ids) # Cardinality(Range(room_ids))
           THEN ValidationError(<<"Duplicate room IDs found">>)
       ELSE IF Len(student_ids) # Cardinality(Range(student_ids))
           THEN ValidationError(<<"Duplicate student IDs found">>)
       ELSE NoExc

validate_business_rules(s, r) ==
    LET room_ids == non_null_ids(Items(r))
        student_ids == non_null_ids(Items(s))
    IN IF Len(room_ids) # Cardinality(Range(room_ids))
           THEN ValidationError(<<"Duplicate room IDs found">>)
       ELSE IF Len(student_ids) # Cardinality(Range(student_ids))
           THEN ValidationError(<<"Duplicate student IDs found">>)
       ELSE NoExc

validate_input_data(s, r) ==
    LET e1 == validate_students_data(s)
    IN IF e1 # NoExc THEN e1
       ELSE LET e2 == validate_rooms_data(r)
            IN IF e2 # NoExc THEN e2
               ELSE validate_business_rules(s, r)

\* a Python dict is a function on the set of its keys; d[k] = v is (k :> v) @@ d
EmptyDict == [k \in {} |-> <<>>]

RECURSIVE build_room_lookup_from(_, _)
build_room_lookup_from(items, room_lookup) ==
    IF items = <<>> THEN room_lookup
    ELSE LET room == Head(items)
             room_id == Get(room, "id", None)
         IN build_room_lookup_from(Tail(items),
                IF room_id # None THEN (room_id :> room) @@ room_lookup
                ELSE room_lookup)

build_room_lookup(items) == build_room_lookup_from(items, EmptyDict)

\* variant: any non-null reference counts as an assignment
is_assigned_NonNull(room_id, room_lookup) ==
    room_id # None

\* the branch of the loop body that decides where a student goes
is_assigned(room_id, room_lookup) ==
    room_id # None /\ room_id \in DOMAIN room_lookup

\* variant: insert(0, student_data) instead of append
append_to_bucket_Front(students_by_room, room_id, student_data) ==
    LET old == IF room_id \in DOMAIN students_by_room
               THEN students_by_room[room_id] ELSE <<>>
    IN (room_id :> (<<student_data>> \o old)) @@ students_by_room

\* students_by_room[room_id].append(student_data), creating the list first
append_to_bucket(students_by_room, room_id, student_data) ==
    LET old == IF room_id \in DOMAIN students_by_room
               THEN students_by_room[room_id] ELSE <<>>
    IN (room_id :> Append(old, student_data)) @@ students_by_room

RECURSIVE group_students_from(_, _, _, _)
group_students_from(items, room_lookup, students_by_room, unassigned_students) ==
    IF items = <<>>
        THEN [by_room |-> students_by_room, unassigned |-> unassigned_students]
    ELSE LET student == Head(items)
             room_id == Get(student, "room", None)
             student_data == [id |-> Get(student, "id", None),
                              name |-> Get(student, "name", "Unknown")]
         IN IF is_assigned(room_id, room_lookup)
                THEN group_students_from(Tail(items), room_lookup,
                         append_to_bucket(students_by_room, room_id, student_data),
                         unassigned_students)
            ELSE group_students_from(Tail(items), room_lookup, students_by_room,
                         Append(unassigned_students, student_data))

group_students_by_room(items, room_lookup) ==
    group_students_from(items, room_lookup, EmptyDict, <<>>)

\* variant: iterates the buckets, so the rooms come in key order and a room
\* without students is left out
RECURSIVE build_combined_rooms_ByBucket(_, _)
build_combined_rooms_ByBucket(items, students_by_room) ==
    IF DOMAIN students_by_room = {} THEN <<>>
    ELSE LET room_id == CHOOSE k \in DOMAIN students_by_room :
                            \A m \in DOMAIN students_by_room : k <= m
             room == CHOOSE x \in Range(items) : Get(x, "id", None) = room_id
             rest == [k \in DOMAIN students_by_room \ {room_id} |-> students_by_room[k]]
         IN <<CombinedRoom_to_dict(room_id,
                                   Get(room, "name", "Unknown Room"),
                                   students_by_room[room_id])>>
            \o build_combined_rooms_ByBucket(items, rest)

RECURSIVE build_combined_rooms(_, _)
build_combined_rooms(items, students_by_room) ==
    IF items = <<>> THEN <<>>
    ELSE LET room == Head(items)
             room_id == Get(room, "id", None)
         IN <<CombinedRoom_to_dict(room_id,
                                   Get(room, "name", "Unknown Room"),
                                   Get(students_by_room, room_id, <<>>))>>
            \o build_combined_rooms(Tail(items), students_by_room)

\* variant: the bucket is appended even when it is empty
append_unassigned_Always(result, unassigned_students) ==
    Append(result,
        CombinedRoom_to_dict(None, "Unassigned Students", unassigned_students))

\* if unassigned_students: result.append(CombinedRoom(None, ...).to_dict())
append_unassigned(result, unassigned_students) ==
    IF unassigned_students # <<>>
        THEN Append(result,
                 CombinedRoom_to_dict(None, "Unassigned Students", unassigned_students))
    ELSE result

\* len(v) inside the f-string of the first log line
len_error(v) ==
    IF v = Number THEN TypeError(<<"object of type 'int' has no len()">>) ELSE NoExc

\* [exc, ret]: the exception raised, or NoExc and the list returned
combine_data(s, r) ==
    LET e == validate_input_data(s, r)
    IN IF len_error(s) # NoExc THEN [exc |-> len_error(s), ret |-> <<>>]
       ELSE IF len_error(r) # NoExc THEN [exc |-> len_error(r), ret |-> <<>>]
       ELSE IF e # NoExc THEN [exc |-> e, ret |-> <<>>]
       ELSE LET room_lookup == build_room_lookup(Items(r))
                grouped == group_students_by_room(Items(s), room_lookup)
                result == build_combined_rooms(Items(r), grouped.by_room)
            IN [exc |-> NoExc, ret |-> append_unassigned(result, grouped.unassigned)]

----------------------------------------------------------------------------
(* data/exporters/exporter_factory.py, data/loaders/loader_factory.py *)

\* a registry is a dict kept in insertion order: a sequence of entries
\* [key, class], at most one entry per key
InitialExporters ==
    <<[key |-> "json", class |-> "JSONExporter"], [key |-> "xml", class |-> "XMLExporter"]>>
InitialLoaders == <<[key |-> "json", class |-> "JSONDataLoader"]>>

\* dict.get(key) is None when the key is absent
NoClass == "None"

\* str.lower() on the identifiers the model uses
lower(name) ==
    CASE name \in {"json", "JSON", "Json"} -> "json"
      [] name \in {"xml", "XML"} -> "xml"
      [] name \in {"yaml", "YAML"} -> "yaml"
      [] OTHER -> name

\* list(d.keys())
keys(d) == [i \in 1..Len(d) |-> d[i].key]

\* d.get(k)
dict_get(d, k) ==
    IF \E i \in 1..Len(d) : d[i].key = k
        THEN d[CHOOSE i \in 1..Len(d) : d[i].key = k].class
    ELSE NoClass

\* d[k] = v: an existing key keeps its position, a new key goes last
dict_set(d, k, v) ==
    IF \E i \in 1..Len(d) : d[i].key = k
        THEN [i \in 1..Len(d) |-> IF d[i].key = k THEN [key |-> k, class |-> v] ELSE d[i]]
    ELSE Append(d, [key |-> k, class |-> v])

\* ', '.join(supported_formats)
join(pieces) ==
    [i \in 1..(IF Len(pieces) = 0 THEN 0 ELSE 2 * Len(pieces) - 1) |->
        IF i % 2 = 1 THEN pieces[(i + 1) \div 2] ELSE ", "]

UnsupportedFormatError(format_name, supported_formats) ==
    [type |-> "UnsupportedFormatError",
     msg |-> <<"Unsupported format '", format_name, "'. Supported formats: ">>
             \o join(supported_formats),
     path |-> NoPath,
     format_name |-> format_name,
     supported_formats |-> supported_formats]

create_exporter_Lowered(_exporters, format_name) ==
    LET exporter_class == dict_get(_exporters, lower(format_name))
    IN IF exporter_class = NoClass
           THEN [exc |-> UnsupportedFormatError(lower(format_name), keys(_exporters)),
                 ret |-> NoClass]
       ELSE [exc |-> NoExc, ret |-> exporter_class]

\* DataExporterFactory.create_exporter: the class looked up under the
\* lower-cased name (ret is the class the returned instance belongs to)
create_exporter(_exporters, format_name) ==
    LET format_lower == lower(format_name)
        exporter_class == dict_get(_exporters, format_lower)
    IN IF exporter_class = NoClass
           THEN [exc |-> UnsupportedFormatError(format_name, keys(_exporters)),
                 ret |-> NoClass]
       ELSE [exc |-> NoExc, ret |-> exporter_class]

\* DataExporterFactory.get_supported_formats
get_supported_formats(_exporters) == keys(_exporters)

register_exporter_AsGiven(_exporters, format_name, exporter_class) ==
    dict_set(_exporters, format_name, exporter_class)

\* DataExporterFactory.register_exporter
register_exporter(_exporters, format_name, exporter_class) ==
    dict_set(_exporters, lower(format_name), exporter_class)

\* DataLoaderFactory.create_loader
create_loader(_loaders, format_name) ==
    LET format_lower == lower(format_name)
        loader_class == dict_get(_loaders, format_lower)
    IN IF loader_class = NoClass
           THEN [exc |-> UnsupportedFormatError(format_name, keys(_loaders)),
                 ret |-> NoClass]
       ELSE [exc |-> NoExc, ret |-> loader_class]

\* DataLoaderFactory.register_loader
register_loader(_loaders, format_name, loader_class) ==
    dict_set(_loaders, lower(format_name), loader_class)

----------------------------------------------------------------------------
(* The inputs the operations are applied to *)

StudentIds == {None, 1, 2}
RoomIds == {None, 1, 2}
RoomRefs == {None, 1, 2, 9}

\* one name per id, so that a name identifies the record it came from
StudentName(id) == IF id = 1 THEN "Alice" ELSE IF id = 2 THEN "Bob" ELSE "Carol"
RoomName(id) == IF id = 1 THEN "101" ELSE IF id = 2 THEN "102" ELSE "Annex"

StudentRecords ==
    {[id |-> i, name |-> StudentName(i), room |-> r] : i \in StudentIds, r \in RoomRefs}
    \cup {[id |-> i, name |-> StudentName(i)] : i \in StudentIds}
    \cup {[id |-> 1, room |-> 1], [name |-> "Alice", room |-> 1], Scalar}

RoomRecords ==
    {[id |-> i, name |-> RoomName(i)] : i \in RoomIds}
    \cup {[id |-> 1], [name |-> "101"], Scalar}

SeqsUpTo(T, n) == UNION {[1..k -> T] : k \in 0..n}

RawStudents == {List(s) : s \in SeqsUpTo(StudentRecords, MaxStudents)} \cup {Scalar, Number}
RawRooms == {List(r) : r \in SeqsUpTo(RoomRecords, MaxRooms)} \cup {Scalar, Number}

----------------------------------------------------------------------------
(* combine_data applied to arbitrary raw values *)

\* the files and the controller play no part in a library call
NoExit == -1
NoHeap == <<>>
StudentsPath == "students.json"
RoomsPath == "rooms.json"

\* a path of blanks, as in --students "  "
BlankPath == "  "

NoFile == [exists |-> FALSE, parses |-> FALSE, value |-> Scalar]
Absent == [state |-> "absent", written |-> <<>>, complete |-> FALSE]

NoRun ==
    /\ pc = "idle"
    /\ argv = "none"
    /\ studentsFile = NoFile
    /\ roomsFile = NoFile
    /\ fmt = "json"
    /\ data = Scalar
    /\ dirExists = FALSE
    /\ outFile = Absent
    /\ calls = <<>>
    /\ exitCode = NoExit
    /\ exporters = InitialExporters
    /\ loaders = InitialLoaders
    /\ studentsPath = StudentsPath
    /\ roomsPath = RoomsPath
    /\ heap = NoHeap

Init ==
    /\ students \in RawStudents
    /\ rooms \in RawRooms
    /\ op = "none"
    /\ ret = <<>>
    /\ exc = NoExc
    /\ NoRun

CombineData ==
    /\ op = "none"
    /\ op' = "combine_data"
    /\ exc' = combine_data(students, rooms).exc
    /\ ret' = combine_data(students, rooms).ret
    /\ UNCHANGED <<students, rooms>>
    /\ UNCHANGED runVars
    /\ UNCHANGED factoryVars
    /\ UNCHANGED pathVars
    /\ UNCHANGED heapVars

Next == CombineData

Spec == Init /\ [][Next]_vars

----------------------------------------------------------------------------
(* The two raw-data validators, each applied to arbitrary raw values *)

InitValidate ==
    /\ \/ students \in RawStudents /\ rooms = List(<<>>)
       \/ students = List(<<>>) /\ rooms \in RawRooms
    /\ op = "none"
    /\ ret = <<>>
    /\ exc = NoExc
    /\ NoRun

ValidateStudentsData ==
    /\ op = "none"
    /\ op' = "validate_students_data"
    /\ exc' = validate_students_data(students)
    /\ ret' = <<>>
    /\ UNCHANGED <<students, rooms>>
    /\ UNCHANGED runVars
    /\ UNCHANGED factoryVars
    /\ UNCHANGED pathVars
    /\ UNCHANGED heapVars

ValidateRoomsData ==
    /\ op = "none"
    /\ op' = "validate_rooms_data"
    /\ exc' = validate_rooms_data(rooms)
    /\ ret' = <<>>
    /\ UNCHANGED <<students, rooms>>
    /\ UNCHANGED runVars
    /\ UNCHANGED factoryVars
    /\ UNCHANGED pathVars
    /\ UNCHANGED heapVars

NextValidate ==
    \/ ValidateStudentsData
    \/ ValidateRoomsData

SpecValidate == InitValidate /\ [][NextValidate]_vars

----------------------------------------------------------------------------
(* data/exporters/json_exporter.py, data/exporters/xml_exporter.py *)

OutputPath == "out/combined.json"

ExportName(f) == IF f = "json" THEN "JSON" ELSE "XML"

\* the loop over required_fields for one record: the first field it lacks
missing_field(record) ==
    IF ~Has(record, "id") THEN "id"
    ELSE IF ~Has(record, "name") THEN "name"
    ELSE IF ~Has(record, "students") THEN "students"
    ELSE ""

\* the loop of validate_output_data from position i on
RECURSIVE validate_output_loop(_, _)
validate_output_loop(items, i) ==
    IF i > Len(items) THEN NoExc
    ELSE IF ~IsDict(items[i])
        THEN DataExportError(<<"Record at index ", Str(i - 1), " must be a dictionary">>, NoPath)
    ELSE IF missing_field(items[i]) # ""
        THEN DataExportError(<<"Record at index ", Str(i - 1), " missing required field: ",
                               missing_field(items[i])>>, NoPath)
    ELSE validate_output_loop(items, i + 1)

validate_output_data(f, d) ==
    IF ~IsList(d)
        THEN DataExportError(<<"Data must be a list for ", ExportName(f), " export">>, NoPath)
    ELSE validate_output_loop(Items(d), 1)

\* except Exception as e: raise DataExportError(f"Failed to export ... data: {e}", output_path)
export_error(f, e) ==
    DataExportError(<<"Failed to export ", ExportName(f), " data: ">> \o e.msg, OutputPath)

\* whether the text of a record can be encoded: no name in it is a lone surrogate
Encodable(record) ==
    /\ record.name # LoneSurrogate
    /\ \A k \in 1..Len(record.students) : record.students[k].name # LoneSurrogate

\* _generate_xml: minidom.parseString rejects the document when a name cannot be
\* written; nothing has touched the file system at that point
generate_xml(items) ==
    IF \A i \in 1..Len(items) : Encodable(items[i]) THEN NoExc
    ELSE OSError(<<"reference to invalid character number">>)

\* variant: the directory is made before the records are looked at
ExportValidate_MkdirFirst ==
    /\ pc = "export_validate"
    /\ calls' = Append(calls, "export")
    /\ dirExists' = TRUE
    /\ LET e == validate_output_data(fmt, data)
       IN IF e # NoExc
              THEN /\ exc' = export_error(fmt, e)
                   /\ pc' = "export_raised"
          ELSE /\ exc' = NoExc
               /\ pc' = "open"
    /\ UNCHANGED <<students, rooms, op, ret, argv, studentsFile, roomsFile, fmt, data,
                   outFile, exitCode>>
    /\ UNCHANGED factoryVars
    /\ UNCHANGED pathVars
    /\ UNCHANGED heapVars

\* export(): validate_output_data, and for XML the document is built in memory
ExportValidate ==
    /\ pc = "export_validate"
    /\ calls' = Append(calls, "export")
    /\ LET e == validate_output_data(fmt, data)
           x == IF e = NoExc /\ fmt = "xml" THEN generate_xml(Items(data)) ELSE NoExc
       IN IF e # NoExc
              THEN /\ exc' = export_error(fmt, e)
                   /\ pc' = "export_raised"
          ELSE IF x # NoExc
              THEN /\ exc' = export_error(fmt, x)
                   /\ pc' = "export_raised"
          ELSE /\ exc' = NoExc
               /\ pc' = "mkdir"
    /\ UNCHANGED <<students, rooms, op, ret, argv, studentsFile, roomsFile, fmt, data,
                   dirExists, outFile, exitCode>>
    /\ UNCHANGED factoryVars
    /\ UNCHANGED pathVars
    /\ UNCHANGED heapVars

\* output_path_obj.parent.mkdir(parents=True, exist_ok=True); the operating
\* system may refuse to create a directory that is not there
ExportMkdir ==
    /\ pc = "mkdir"
    /\ \E refused \in (IF dirExists THEN {FALSE} ELSE BOOLEAN) :
           IF refused
               THEN /\ exc' = export_error(fmt, OSError(<<"[Errno 13] Permission denied">>))
                    /\ pc' = "export_raised"
                    /\ UNCHANGED dirExists
           ELSE /\ exc' = NoExc
                /\ pc' = "open"
                /\ dirExists' = TRUE
    /\ UNCHANGED <<students, rooms, op, ret, argv, studentsFile, roomsFile, fmt, data,
                   outFile, calls, exitCode>>
    /\ UNCHANGED factoryVars
    /\ UNCHANGED pathVars
    /\ UNCHANGED heapVars

\* open(output_path_obj, 'w'): creates the file or truncates the one there
ExportOpen ==
    /\ pc = "open"
    /\ calls' = Append(calls, "open")
    /\ \E refused \in BOOLEAN :
           IF refused
               THEN /\ exc' = export_error(fmt, OSError(<<"[Errno 13] Permission denied">>))
                    /\ pc' = "export_raised"
                    /\ UNCHANGED outFile
           ELSE /\ exc' = NoExc
                /\ pc' = "write"
                /\ outFile' = [state |-> "new", written |-> <<>>, complete |-> FALSE]
    /\ UNCHANGED <<students, rooms, op, ret, argv, studentsFile, roomsFile, fmt, data,
                   dirExists, exitCode>>
    /\ UNCHANGED factoryVars
    /\ UNCHANGED pathVars
    /\ UNCHANGED heapVars

\* json.dump(data, file) / file.write(xml_content), then the with block closes
\* the file. The text reaches the file record by record; the write stops at a
\* record that cannot be encoded, or where the operating system reports an
\* error, and the with block closes the file with what was written so far.
ExportWrite ==
    /\ pc = "write"
    /\ LET n == Len(Items(data))
           written == Len(outFile.written)
       IN IF written = n
              THEN /\ outFile' = [outFile EXCEPT !.complete = TRUE]
                   /\ exc' = NoExc
                   /\ pc' = "export_returned"
          ELSE IF ~Encodable(Items(data)[written + 1])
              THEN /\ exc' = export_error(fmt,
                                  OSError(<<"'utf-8' codec can't encode character">>))
                   /\ pc' = "export_raised"
                   /\ UNCHANGED outFile
          ELSE \E failed \in BOOLEAN :
                   IF failed
                       THEN /\ exc' = export_error(fmt,
                                          OSError(<<"[Errno 28] No space left on device">>))
                            /\ pc' = "export_raised"
                            /\ UNCHANGED outFile
                   ELSE /\ outFile' = [outFile EXCEPT
                                          !.written = Append(@, Items(data)[written + 1])]
                        /\ UNCHANGED <<exc, pc>>
    /\ UNCHANGED <<students, rooms, op, ret, argv, studentsFile, roomsFile, fmt, data,
                   dirExists, calls, exitCode>>
    /\ UNCHANGED factoryVars
    /\ UNCHANGED pathVars
    /\ UNCHANGED heapVars

----------------------------------------------------------------------------
(* export applied to arbitrary records and an arbitrary state of the output *)

OldFile == [state |-> "old", written |-> <<>>, complete |-> TRUE]

ExportStudents == {<<>>, <<[id |-> 1, name |-> "Alice"]>>,
                   <<[id |-> 2, name |-> LoneSurrogate]>>}

ExportRecords ==
    {[id |-> i, name |-> RoomName(i), students |-> s] : i \in {None, 1}, s \in ExportStudents}
    \cup {[name |-> "101", students |-> <<>>], [id |-> 1, students |-> <<>>],
          [id |-> 1, name |-> "101"], [students |-> <<>>], Scalar}

MaxRecords == 2

ExportData == {List(d) : d \in SeqsUpTo(ExportRecords, MaxRecords)} \cup {Scalar}

InitExport ==
    /\ students = List(<<>>)
    /\ rooms = List(<<>>)
    /\ op = "none"
    /\ ret = <<>>
    /\ exc = NoExc
    /\ pc = "export_validate"
    /\ argv = "none"
    /\ studentsFile = NoFile
    /\ roomsFile = NoFile
    /\ fmt \in {"json", "xml"}
    /\ data \in ExportData
    /\ dirExists \in BOOLEAN
    /\ outFile \in (IF dirExists THEN {Absent, OldFile} ELSE {Absent})
    /\ calls = <<>>
    /\ exitCode = NoExit
    /\ exporters = InitialExporters
    /\ loaders = InitialLoaders
    /\ studentsPath = StudentsPath
    /\ roomsPath = RoomsPath
    /\ heap = NoHeap

NextExport ==
    \/ ExportValidate
    \/ ExportMkdir
    \/ ExportOpen
    \/ ExportWrite

SpecExport == InitExport /\ [][NextExport]_vars

----------------------------------------------------------------------------
(* data/loaders/json_loader.py *)


JsonFile(v) == [exists |-> TRUE, parses |-> TRUE, value |-> v]
Garbage == [exists |-> TRUE, parses |-> FALSE, value |-> Scalar]

validate_data_format(v, data_type) ==
    IF data_type = "students" THEN validate_students_data(v)
    ELSE IF data_type = "rooms" THEN validate_rooms_data(v)
    ELSE ValidationError(<<"Unknown data type: ", data_type>>)

\* validate_file_path: the paths the model uses are strings
validate_file_path(file_path) ==
    IF strip(file_path) = "" THEN ValidationError(<<"File path must be a non-empty string">>)
    ELSE NoExc

\* [exc, ret] of load_students(file_path): validate_file_path runs before the
\* try block, so its ValidationError leaves as it is; the DataLoadError for a
\* missing file is raised inside the try block and caught by its own
\* except Exception clause
load_students(file, file_path) ==
    IF validate_file_path(file_path) # NoExc
        THEN [exc |-> validate_file_path(file_path), ret |-> Scalar]
    ELSE IF ~file.exists
        THEN [exc |-> DataLoadError(<<"Failed to load students data: ",
                                      "Students file not found: ", file_path>>, file_path),
              ret |-> Scalar]
    ELSE IF ~file.parses
        THEN [exc |-> DataLoadError(<<"Invalid JSON format in students file: ",
                                      "Expecting value: line 1 column 1 (char 0)">>, file_path),
              ret |-> Scalar]
    ELSE LET e == validate_data_format(file.value, "students")
         IN IF e # NoExc
                THEN [exc |-> DataLoadError(<<"Failed to load students data: ">> \o e.msg,
                                            file_path),
                      ret |-> Scalar]
            ELSE [exc |-> NoExc, ret |-> file.value]

load_rooms(file, file_path) ==
    IF validate_file_path(file_path) # NoExc
        THEN [exc |-> validate_file_path(file_path), ret |-> Scalar]
    ELSE IF ~file.exists
        THEN [exc |-> DataLoadError(<<"Failed to load rooms data: ",
                                      "Rooms file not found: ", file_path>>, file_path),
              ret |-> Scalar]
    ELSE IF ~file.parses
        THEN [exc |-> DataLoadError(<<"Invalid JSON format in rooms file: ",
                                      "Expecting value: line 1 column 1 (char 0)">>, file_path),
              ret |-> Scalar]
    ELSE LET e == validate_data_format(file.value, "rooms")
         IN IF e # NoExc
                THEN [exc |-> DataLoadError(<<"Failed to load rooms data: ">> \o e.msg,
                                            file_path),
                      ret |-> Scalar]
            ELSE [exc |-> NoExc, ret |-> file.value]

----------------------------------------------------------------------------
(* cli/argument_parser.py, cli/cli_controller.py *)

\* the command lines given to run(): one that parses, the three usage errors
\* (a required option missing, a --format outside the choices, --verbose
\* together with --quiet) and the two options that print and leave
ArgvKinds ==
    {"valid", "missing_required", "invalid_format", "verbose_and_quiet", "help", "version"}
UsageErrors == {"missing_required", "invalid_format", "verbose_and_quiet"}

SystemExit_code_One(kind) == IF kind \in UsageErrors THEN 1 ELSE 0

\* the status argparse leaves with: parser.error() exits with 2, the help
\* and version actions exit with 0
SystemExit_code(kind) == IF kind \in UsageErrors THEN 2 ELSE 0

\* run(): parsed_args = self.argument_parser.parse(args), and
\* except SystemExit as e: return e.code if e.code is not None else 1
ParseArgs ==
    /\ pc = "parse"
    /\ IF argv = "valid"
           THEN /\ pc' = "load_students"
                /\ UNCHANGED exitCode
       ELSE /\ pc' = "done"
            /\ exitCode' = SystemExit_code(argv)
    /\ UNCHANGED <<students, rooms, op, ret, exc, argv, studentsFile, roomsFile, fmt,
                   data, dirExists, outFile, calls>>
    /\ UNCHANGED factoryVars
    /\ UNCHANGED pathVars
    /\ UNCHANGED heapVars

\* _load_input_data: an error of the loader is raised again as a
\* DataLoadError built from its message alone
\*     except DataLoadError as e: raise DataLoadError(f"Failed to load input data: {e}")
\*     except Exception as e: raise DataLoadError(f"Unexpected error during data loading: {e}")
load_stage_error_NoCause(e) ==
    IF e.type = "DataLoadError" THEN DataLoadError(<<"Failed to load input data">>, NoPath)
    ELSE DataLoadError(<<"Unexpected error during data loading">>, NoPath)

load_stage_error(e) ==
    IF e.type = "DataLoadError"
        THEN DataLoadError(<<"Failed to load input data: ">> \o e.msg, NoPath)
    ELSE DataLoadError(<<"Unexpected error during data loading: ">> \o e.msg, NoPath)

\* _load_input_data, first half: DataLoaderFactory.create_loader('json') and
\* loader.load_students(args.students_file)
LoadStudents ==
    /\ pc = "load_students"
    /\ LET l == create_loader(loaders, "json")
           r == IF l.exc # NoExc THEN l ELSE load_students(studentsFile, studentsPath)
       IN /\ calls' = IF l.exc # NoExc THEN calls ELSE Append(calls, "load_students")
          /\ IF r.exc # NoExc
                 THEN /\ exc' = load_stage_error(r.exc)
                      /\ pc' = "handle_error"
                      /\ UNCHANGED students
             ELSE /\ students' = r.ret
                  /\ pc' = "load_rooms"
                  /\ UNCHANGED exc
    /\ UNCHANGED <<rooms, op, ret, argv, studentsFile, roomsFile, fmt, data, dirExists,
                   outFile, exitCode>>
    /\ UNCHANGED factoryVars
    /\ UNCHANGED pathVars
    /\ UNCHANGED heapVars

\* _load_input_data, second half: loader.load_rooms(args.rooms_file)
LoadRooms ==
    /\ pc = "load_rooms"
    /\ calls' = Append(calls, "load_rooms")
    /\ LET r == load_rooms(roomsFile, roomsPath)
       IN IF r.exc # NoExc
              THEN /\ exc' = load_stage_error(r.exc)
                   /\ pc' = "handle_error"
                   /\ UNCHANGED rooms
          ELSE /\ rooms' = r.ret
               /\ pc' = "combine"
               /\ UNCHANGED exc
    /\ UNCHANGED <<students, op, ret, argv, studentsFile, roomsFile, fmt, data, dirExists,
                   outFile, exitCode>>
    /\ UNCHANGED factoryVars
    /\ UNCHANGED pathVars
    /\ UNCHANGED heapVars

process_stage_error_Unexpected(e) ==
    ValidationError(<<"Unexpected error during data processing: ">> \o e.msg)

\* _process_data: an error of the service is raised again as a ValidationError
\*     except ValidationError as e: raise ValidationError(f"Data processing failed: {e}")
\*     except Exception as e:
\*         raise ValidationError(f"Unexpected error during data processing: {e}")
process_stage_error(e) ==
    IF e.type = "ValidationError" THEN ValidationError(<<"Data processing failed: ">> \o e.msg)
    ELSE ValidationError(<<"Unexpected error during data processing: ">> \o e.msg)

\* variant: a failed combination is logged and an empty result is exported
ProcessData_Swallow ==
    /\ pc = "combine"
    /\ calls' = Append(calls, "combine_data")
    /\ LET r == combine_data(students, rooms)
       IN /\ data' = List(r.ret)
          /\ pc' = "create_exporter"
          /\ UNCHANGED exc
    /\ UNCHANGED <<students, rooms, op, ret, argv, studentsFile, roomsFile, fmt, dirExists,
                   outFile, exitCode>>
    /\ UNCHANGED factoryVars
    /\ UNCHANGED pathVars
    /\ UNCHANGED heapVars

\* _process_data: service.combine_data(students_data, rooms_data)
ProcessData ==
    /\ pc = "combine"
    /\ calls' = Append(calls, "combine_data")
    /\ LET r == combine_data(students, rooms)
       IN IF r.exc # NoExc
              THEN /\ exc' = process_stage_error(r.exc)
                   /\ pc' = "handle_error"
                   /\ UNCHANGED data
          ELSE /\ data' = List(r.ret)
               /\ pc' = "create_exporter"
               /\ UNCHANGED exc
    /\ UNCHANGED <<students, rooms, op, ret, argv, studentsFile, roomsFile, fmt, dirExists,
                   outFile, exitCode>>
    /\ UNCHANGED factoryVars
    /\ UNCHANGED pathVars
    /\ UNCHANGED heapVars

\* the choices of --format: DataExporterFactory.get_supported_formats() when
\* the parser is built
Exporters == {"json", "xml"}

\* _export_data: DataExporterFactory.create_exporter(args.output_format), and
\* except UnsupportedFormatError as e:
\*     raise UnsupportedFormatError(e.format_name, e.supported_formats)
CreateExporter ==
    /\ pc = "create_exporter"
    /\ calls' = Append(calls, "create_exporter")
    /\ LET r == create_exporter(exporters, fmt)
       IN IF r.exc = NoExc
              THEN /\ pc' = "export_validate"
                   /\ UNCHANGED exc
          ELSE /\ exc' = UnsupportedFormatError(r.exc.format_name, r.exc.supported_formats)
               /\ pc' = "handle_error"
    /\ UNCHANGED <<students, rooms, op, ret, argv, studentsFile, roomsFile, fmt, data,
                   dirExists, outFile, exitCode>>
    /\ UNCHANGED factoryVars
    /\ UNCHANGED pathVars
    /\ UNCHANGED heapVars

\* _export_data: except DataExportError as e: raise DataExportError(f"Failed to export data: {e}")
ExportRaised ==
    /\ pc = "export_raised"
    /\ exc' = DataExportError(<<"Failed to export data: ">> \o exc.msg, NoPath)
    /\ pc' = "handle_error"
    /\ UNCHANGED <<students, rooms, op, ret, argv, studentsFile, roomsFile, fmt, data,
                   dirExists, outFile, calls, exitCode>>
    /\ UNCHANGED factoryVars
    /\ UNCHANGED pathVars
    /\ UNCHANGED heapVars

\* run(): _execute_application returned; return 0
ExportReturned ==
    /\ pc = "export_returned"
    /\ pc' = "done"
    /\ exitCode' = 0
    /\ UNCHANGED <<students, rooms, op, ret, exc, argv, studentsFile, roomsFile, fmt, data,
                   dirExists, outFile, calls>>
    /\ UNCHANGED factoryVars
    /\ UNCHANGED pathVars
    /\ UNCHANGED heapVars

\* run(): except Exception as e: self._handle_error(e); return 1
HandleError ==
    /\ pc = "handle_error"
    /\ pc' = "done"
    /\ exitCode' = 1
    /\ UNCHANGED <<students, rooms, op, ret, exc, argv, studentsFile, roomsFile, fmt, data,
                   dirExists, outFile, calls>>
    /\ UNCHANGED factoryVars
    /\ UNCHANGED pathVars
    /\ UNCHANGED heapVars

KeyboardInterrupt == Raise("KeyboardInterrupt", <<>>, NoPath)

\* the statements of run() a KeyboardInterrupt can arrive in: those of the try
\* body are covered by except KeyboardInterrupt, _handle_error runs inside
\* the except Exception clause and is not
TryBody ==
    {"parse", "load_students", "load_rooms", "combine", "create_exporter",
     "export_validate", "mkdir", "open", "write", "export_raised", "export_returned"}

\* run(): except KeyboardInterrupt: return 130; an interrupt that arrives
\* while _handle_error is reporting leaves run() as an exception
Interrupt ==
    /\ pc \in TryBody \cup {"handle_error"}
    /\ exc' = KeyboardInterrupt
    /\ IF pc \in TryBody
           THEN /\ pc' = "done"
                /\ exitCode' = 130
       ELSE /\ pc' = "raised"
            /\ UNCHANGED exitCode
    /\ UNCHANGED <<students, rooms, op, ret, argv, studentsFile, roomsFile, fmt, data,
                   dirExists, outFile, calls>>
    /\ UNCHANGED factoryVars
    /\ UNCHANGED pathVars
    /\ UNCHANGED heapVars

----------------------------------------------------------------------------
(* One run of the controller over the files it is pointed at *)

RunStudentRecords ==
    {[id |-> 1, name |-> "Alice", room |-> 1], [id |-> 1, name |-> "Alice"],
     [id |-> 2, name |-> "Bob", room |-> 9], [id |-> 2, name |-> LoneSurrogate, room |-> 1],
     [id |-> 1, room |-> 1]}

RunRoomRecords ==
    {[id |-> 1, name |-> "101"], [id |-> 2, name |-> "102"], Scalar}

StudentFiles ==
    {JsonFile(List(s)) : s \in SeqsUpTo(RunStudentRecords, MaxStudents)}
    \cup {JsonFile(Scalar), Garbage, NoFile}

RoomFiles ==
    {JsonFile(List(r)) : r \in SeqsUpTo(RunRoomRecords, MaxRooms)}
    \cup {JsonFile(Scalar), Garbage, NoFile}

InitRun ==
    /\ students = Scalar
    /\ rooms = Scalar
    /\ op = "none"
    /\ ret = <<>>
    /\ exc = NoExc
    /\ pc = "parse"
    /\ argv \in ArgvKinds
    /\ studentsPath \in (IF argv = "valid" THEN {StudentsPath, BlankPath} ELSE {StudentsPath})
    /\ roomsPath \in (IF argv = "valid" THEN {RoomsPath, BlankPath} ELSE {RoomsPath})
    /\ heap = NoHeap
    /\ studentsFile \in (IF argv = "valid" /\ studentsPath # BlankPath THEN StudentFiles
                         ELSE {NoFile})
    /\ roomsFile \in (IF argv = "valid" /\ roomsPath # BlankPath THEN RoomFiles ELSE {NoFile})
    /\ fmt \in (IF argv = "valid" THEN Exporters ELSE {"json"})
    /\ data = Scalar
    /\ dirExists \in BOOLEAN
    /\ outFile \in (IF dirExists THEN {Absent, OldFile} ELSE {Absent})
    /\ calls = <<>>
    /\ exitCode = NoExit
    /\ exporters = InitialExporters
    /\ loaders = InitialLoaders

NextRun ==
    \/ ParseArgs
    \/ LoadStudents
    \/ LoadRooms
    \/ ProcessData
    \/ CreateExporter
    \/ ExportValidate
    \/ ExportMkdir
    \/ ExportOpen
    \/ ExportWrite
    \/ ExportRaised
    \/ ExportReturned
    \/ HandleError
    \/ Interrupt

SpecRun == InitRun /\ [][NextRun]_vars

----------------------------------------------------------------------------
(* utils/validation.py: the field validators, and the raw-data checks       *)
(* applied to records whose fields break them                               *)

\* a value whose type matters: [type, value]. A float holds a whole number
\* (value 1 is 1.0), True is 1 and False is 0 as in Python's comparisons
IntObject(i) == [type |-> "int", value |-> i]
BoolObject(b) == [type |-> "bool", value |-> IF b THEN 1 ELSE 0]
FloatObject(i) == [type |-> "float", value |-> i]
StrObject(s) == [type |-> "str", value |-> s]
NoneObject == [type |-> "NoneType", value |-> None]

\* the raw ids of the records above, None or an int, as such a value
IdObject(i) == IF i = None THEN NoneObject ELSE IntObject(i)

\* isinstance(value, cls): bool is a subclass of int
isinstance(value, cls) ==
    value.type = cls \/ (cls = "int" /\ value.type = "bool")

\* str(value) inside the f-string of the message
format(value) ==
    IF value.type = "NoneType" THEN "None"
    ELSE IF value.type = "str" THEN value.value
    ELSE IF value.type = "bool" THEN (IF value.value = 1 THEN "True" ELSE "False")
    ELSE IF value.type = "float" THEN
        (IF value.value < 0 THEN "-1.0" ELSE <<"0.0", "1.0", "2.0">>[value.value + 1])
    ELSE IF value.value < 0 THEN "-1"
    ELSE Str(value.value)

\* variant: zero is accepted
validate_positive_integer_NonNegative(value, field_name) ==
    IF ~isinstance(value, "int") \/ value.value < 0
        THEN ValidationError(<<field_name, " must be a positive integer, got: ", format(value)>>)
    ELSE NoExc

\* if not isinstance(value, int) or value <= 0: raise ValidationError
validate_positive_integer(value, field_name) ==
    IF ~isinstance(value, "int") \/ value.value <= 0
        THEN ValidationError(<<field_name, " must be a positive integer, got: ", format(value)>>)
    ELSE NoExc

\* if not isinstance(value, str) or not value.strip(): raise ValidationError
validate_non_empty_string(value, field_name) ==
    IF ~isinstance(value, "str") \/ strip(value.value) = ""
        THEN ValidationError(<<field_name, " must be a non-empty string, got: ", format(value)>>)
    ELSE NoExc

FieldStudentRecords ==
    {[id |-> 1, name |-> "Alice", room |-> 1], [id |-> 0, name |-> "Alice", room |-> 1],
     [id |-> None, name |-> "Alice"], [id |-> 1, name |-> "  ", room |-> 1],
     [id |-> 2, name |-> ""]}

FieldRoomRecords ==
    {[id |-> 1, name |-> "101"], [id |-> 0, name |-> "101"], [id |-> 2, name |-> "  "]}

InitFields ==
    /\ students \in {List(s) : s \in SeqsUpTo(FieldStudentRecords, MaxStudents)}
    /\ rooms \in {List(r) : r \in SeqsUpTo(FieldRoomRecords, MaxRooms)}
    /\ op = "none"
    /\ ret = <<>>
    /\ exc = NoExc
    /\ NoRun

NextFields ==
    \/ ValidateStudentsData
    \/ ValidateRoomsData
    \/ CombineData

SpecFields == InitFields /\ [][NextFields]_vars

----------------------------------------------------------------------------
(* models/student.py, models/room.py *)

\* no instance: the constructor raised
NoInstance == <<>>

\* Student(id, name, room): the generated __init__ stores the fields and
\* calls __post_init__. [exc, ret]: the exception raised, or the instance
Student(id, name, room) ==
    LET e1 == validate_positive_integer(id, "Student ID")
        e2 == validate_non_empty_string(name, "Student name")
        e3 == IF room.type # "NoneType"
                  THEN validate_positive_integer(room, "Room ID")
              ELSE NoExc
    IN IF e1 # NoExc THEN [exc |-> e1, ret |-> NoInstance]
       ELSE IF e2 # NoExc THEN [exc |-> e2, ret |-> NoInstance]
       ELSE IF e3 # NoExc THEN [exc |-> e3, ret |-> NoInstance]
       ELSE [exc |-> NoExc, ret |-> [id |-> id, name |-> name, room |-> room]]

\* Student.from_dict(data)
Student_from_dict(d) ==
    Student(Get(d, "id", NoneObject), Get(d, "name", StrObject("")),
            Get(d, "room", NoneObject))

\* Room(id, name)
Room(id, name) ==
    LET e1 == validate_positive_integer(id, "Room ID")
        e2 == validate_non_empty_string(name, "Room name")
    IN IF e1 # NoExc THEN [exc |-> e1, ret |-> NoInstance]
       ELSE IF e2 # NoExc THEN [exc |-> e2, ret |-> NoInstance]
       ELSE [exc |-> NoExc, ret |-> [id |-> id, name |-> name]]

\* Room.from_dict(data)
Room_from_dict(d) ==
    Room(Get(d, "id", NoneObject), Get(d, "name", StrObject("")))

\* the field values the constructors are given
IdValues ==
    {IntObject(1), IntObject(2), IntObject(0), IntObject(-1), BoolObject(TRUE),
     BoolObject(FALSE), FloatObject(1), StrObject("1"), NoneObject}
NameValues ==
    {StrObject("Alice"), StrObject(""), StrObject("  "), IntObject(1), NoneObject}
RoomValues ==
    {NoneObject, IntObject(1), IntObject(0), IntObject(-1), BoolObject(TRUE),
     FloatObject(1), StrObject("1")}

\* the keyword arguments / the dict given to from_dict: any of the keys
\* may be missing
ModelData ==
    {[k \in K |-> d[k]] :
        d \in [id : IdValues, name : NameValues, room : RoomValues],
        K \in SUBSET {"id", "name", "room"}}

InitModels ==
    /\ students = List(<<>>)
    /\ rooms = List(<<>>)
    /\ op = "none"
    /\ ret = NoInstance
    /\ exc = NoExc
    /\ pc = "idle"
    /\ argv = "none"
    /\ studentsFile = NoFile
    /\ roomsFile = NoFile
    /\ fmt = "json"
    /\ data \in ModelData
    /\ dirExists = FALSE
    /\ outFile = Absent
    /\ calls = <<>>
    /\ exitCode = NoExit
    /\ exporters = InitialExporters
    /\ loaders = InitialLoaders
    /\ studentsPath = StudentsPath
    /\ roomsPath = RoomsPath
    /\ heap = NoHeap

ModelFrame ==
    /\ UNCHANGED <<students, rooms>>
    /\ UNCHANGED runVars
    /\ UNCHANGED factoryVars
    /\ UNCHANGED pathVars
    /\ UNCHANGED heapVars

\* Student(id=..., name=...[, room=...]): id and name are required
ConstructStudent ==
    /\ op = "none"
    /\ {"id", "name"} \subseteq DOMAIN data
    /\ op' = "Student"
    /\ exc' = Student(data.id, data.name, Get(data, "room", NoneObject)).exc
    /\ ret' = Student(data.id, data.name, Get(data, "room", NoneObject)).ret
    /\ ModelFrame

StudentFromDict ==
    /\ op = "none"
    /\ op' = "Student.from_dict"
    /\ exc' = Student_from_dict(data).exc
    /\ ret' = Student_from_dict(data).ret
    /\ ModelFrame

\* Room(id=..., name=...)
ConstructRoom ==
    /\ op = "none"
    /\ DOMAIN data = {"id", "name"}
    /\ op' = "Room"
    /\ exc' = Room(data.id, data.name).exc
    /\ ret' = Room(data.id, data.name).ret
    /\ ModelFrame

RoomFromDict ==
    /\ op = "none"
    /\ op' = "Room.from_dict"
    /\ exc' = Room_from_dict(data).exc
    /\ ret' = Room_from_dict(data).ret
    /\ ModelFrame

NextModels ==
    \/ ConstructStudent
    \/ StudentFromDict
    \/ ConstructRoom
    \/ RoomFromDict

SpecModels == InitModels /\ [][NextModels]_vars

----------------------------------------------------------------------------
(* The text the exporters write, and what a parser reads back from it *)

\* the characters of a string: the names of the model that hold a character
\* with a meaning in JSON or XML are spelled out, any other name is one
\* piece of ordinary characters
Chars(s) ==
    CASE s = "A&B" -> <<"A", "&", "B">>
      [] s = "<x>" -> <<"<", "x", ">">>
      [] s = "a\"b\\c" -> <<"a", "\"", "b", "\\", "c">>
      [] s = "O'N" -> <<"O", "'", "N">>
      [] OTHER -> <<s>>

\* content.replace(old, new), new being a run of characters
RECURSIVE replace(_, _, _)
replace(content, old, new) ==
    IF content = <<>> THEN <<>>
    ELSE (IF Head(content) = old THEN new ELSE <<Head(content)>>)
         \o replace(Tail(content), old, new)

\* json.dump(..., ensure_ascii=False): a string is written between quotes,
\* with a backslash before a backslash and before a quote
json_string(s) ==
    <<"\"">> \o replace(replace(Chars(s), "\\", <<"\\", "\\">>), "\"", <<"\\", "\"">>)
            \o <<"\"">>

\* an int is written in digits, None as null
json_number(i) == IF i = None THEN <<"null">> ELSE <<Str(i)>>

\* the elements of an array or the members of an object, separated by commas
RECURSIVE json_separated(_)
json_separated(texts) ==
    IF texts = <<>> THEN <<>>
    ELSE IF Len(texts) = 1 THEN texts[1]
    ELSE texts[1] \o <<",">> \o json_separated(Tail(texts))

\* a student of a combined room: the keys in the order of the dict
json_student(st) ==
    <<"{">> \o json_string("id") \o <<":">> \o json_number(st.id) \o <<",">>
            \o json_string("name") \o <<":">> \o json_string(st.name) \o <<"}">>

\* a combined room (CombinedRoom.to_dict: id, name, students)
json_room(record) ==
    <<"{">> \o json_string("id") \o <<":">> \o json_number(record.id) \o <<",">>
            \o json_string("name") \o <<":">> \o json_string(record.name) \o <<",">>
            \o json_string("students") \o <<":", "[">>
            \o json_separated([k \in 1..Len(record.students) |-> json_student(record.students[k])])
            \o <<"]", "}">>

\* json.dump(data, file, indent=2), without the white space between tokens
json_dump(items) ==
    <<"[">> \o json_separated([i \in 1..Len(items) |-> json_room(items[i])]) \o <<"]">>

\* int(digits)
parse_int(digits) == CHOOSE i \in 0..9 : Str(i) = digits

\* json.load: a value is read from the front of the text; val is the value
\* and rest the text after it. A string is read as its characters.
RECURSIVE parse_string(_)
RECURSIVE parse_value(_)
RECURSIVE parse_elements(_)
RECURSIVE parse_members(_)

\* the text after an opening quote, up to the closing one
parse_string(text) ==
    IF Head(text) = "\""
        THEN [val |-> <<>>, rest |-> Tail(text)]
    ELSE IF Head(text) = "\\"
        THEN LET r == parse_string(Tail(Tail(text)))
             IN [val |-> <<text[2]>> \o r.val, rest |-> r.rest]
    ELSE LET r == parse_string(Tail(text))
         IN [val |-> <<Head(text)>> \o r.val, rest |-> r.rest]

parse_value(text) ==
    IF Head(text) = "\"" THEN parse_string(Tail(text))
    ELSE IF Head(text) = "[" THEN parse_elements(Tail(text))
    ELSE IF Head(text) = "{" THEN parse_members(Tail(text))
    ELSE IF Head(text) = "null" THEN [val |-> None, rest |-> Tail(text)]
    ELSE [val |-> parse_int(Head(text)), rest |-> Tail(text)]

\* the text after "[" or after a comma of an array
parse_elements(text) ==
    IF Head(text) = "]" THEN [val |-> <<>>, rest |-> Tail(text)]
    ELSE LET v == parse_value(text)
             more == IF Head(v.rest) = "," THEN parse_elements(Tail(v.rest))
                     ELSE parse_elements(v.rest)
         IN [val |-> <<v.val>> \o more.val, rest |-> more.rest]

\* the text after "{" or after a comma of an object; a key is a string of
\* one piece
parse_members(text) ==
    IF Head(text) = "}" THEN [val |-> EmptyDict, rest |-> Tail(text)]
    ELSE LET k == parse_string(Tail(text))
             v == parse_value(Tail(k.rest))
             more == IF Head(v.rest) = "," THEN parse_members(Tail(v.rest))
                     ELSE parse_members(v.rest)
         IN [val |-> (k.val[1] :> v.val) @@ more.val, rest |-> more.rest]

json_load(text) == parse_value(text).val

\* the utf-8 encoder of the output file refuses a lone surrogate
encodable(text) == \A i \in 1..Len(text) : text[i] # LoneSurrogate

\* the text in front of the first character that cannot be encoded
RECURSIVE encoded_prefix(_)
encoded_prefix(text) ==
    IF text = <<>> \/ Head(text) = LoneSurrogate THEN <<>>
    ELSE <<Head(text)>> \o encoded_prefix(Tail(text))

\* XMLExporter._escape_xml_content: five replacements, '&' first
escape_xml_content(content) ==
    replace(replace(replace(replace(replace(content,
        "&", <<"&", "amp;">>),
        "<", <<"&", "lt;">>),
        ">", <<"&", "gt;">>),
        "\"", <<"&", "quot;">>),
        "'", <<"&", "apos;">>)

\* ElementTree.tostring: the text of an element is written with & < > escaped
escape_cdata(text) ==
    replace(replace(replace(text,
        "&", <<"&", "amp;">>),
        "<", <<"&", "lt;">>),
        ">", <<"&", "gt;">>)

\* the character an entity reference stands for
entity(reference) ==
    CASE reference = "amp;" -> "&"
      [] reference = "lt;" -> "<"
      [] reference = "gt;" -> ">"
      [] reference = "quot;" -> "\""
      [] reference = "apos;" -> "'"

\* an XML parser reading character data: each entity reference is replaced
\* by its character, once
RECURSIVE unescape(_)
unescape(text) ==
    IF text = <<>> THEN <<>>
    ELSE IF Head(text) = "&" THEN <<entity(text[2])>> \o unescape(Tail(Tail(text)))
    ELSE <<Head(text)>> \o unescape(Tail(text))

\* minidom's writer (toprettyxml): the text of a node is written with
\* & < " > escaped
write_data(text) ==
    replace(replace(replace(replace(text,
        "&", <<"&", "amp;">>),
        "<", <<"&", "lt;">>),
        "\"", <<"&", "quot;">>),
        ">", <<"&", "gt;">>)

\* an element holding text only, as the pretty printer writes it: the text
\* set on the element goes through tostring, parseString and toprettyxml
xml_element(tag, text) ==
    LET written == write_data(unescape(escape_cdata(text)))
    IN IF written = <<>> THEN <<"<" \o tag \o "/>">>
       ELSE <<"<" \o tag \o ">">> \o written \o <<"</" \o tag \o ">">>

RECURSIVE xml_students(_)
xml_students(studentList) ==
    IF studentList = <<>> THEN <<>>
    ELSE <<"<student>">>
         \o xml_element("id", <<Str(Head(studentList).id)>>)
         \o xml_element("name", escape_xml_content(Chars(Head(studentList).name)))
         \o <<"</student>">>
         \o xml_students(Tail(studentList))

RECURSIVE xml_rooms(_)
xml_rooms(items) ==
    IF items = <<>> THEN <<>>
    ELSE <<"<room>">>
         \o xml_element("id", IF Head(items).id = None THEN <<>> ELSE <<Str(Head(items).id)>>)
         \o xml_element("name", escape_xml_content(Chars(Head(items).name)))
         \o (IF Head(items).students = <<>> THEN <<"<students/>">>
             ELSE <<"<students>">> \o xml_students(Head(items).students) \o <<"</students>">>)
         \o <<"</room>">>
         \o xml_rooms(Tail(items))

\* _generate_xml, without the white space of the pretty printer
xml_document(items) ==
    <<"<?xml version=\"1.0\" ?>">>
    \o (IF items = <<>> THEN <<"<rooms/>">>
        ELSE <<"<rooms>">> \o xml_rooms(items) \o <<"</rooms>">>)

\* the text in front of the first occurrence of a closing tag
RECURSIVE until(_, _)
until(text, closing) ==
    IF text = <<>> \/ Head(text) = closing THEN <<>>
    ELSE <<Head(text)>> \o until(Tail(text), closing)

\* the character data of the name elements of a document, in document
\* order, as they stand in the text
RECURSIVE name_texts(_)
name_texts(text) ==
    IF text = <<>> THEN <<>>
    ELSE IF Head(text) = "<name/>" THEN <<<<>>>> \o name_texts(Tail(text))
    ELSE IF Head(text) = "<name>"
        THEN LET chars == until(Tail(text), "</name>")
             IN <<chars>> \o name_texts(SubSeq(text, Len(chars) + 3, Len(text)))
    ELSE name_texts(Tail(text))

\* an XML parser reading the document: the names it recovers
xml_names(text) ==
    LET texts == name_texts(text)
    IN [i \in 1..Len(texts) |-> unescape(texts[i])]

----------------------------------------------------------------------------
(* Exporting an output of combine_data and reading the file back *)

SerialStudentRecords ==
    {[id |-> 1, name |-> "A&B", room |-> 1], [id |-> 2, name |-> "a\"b\\c", room |-> 1],
     [id |-> 2, name |-> LoneSurrogate], [id |-> 1, name |-> "O'N", room |-> 9],
     [id |-> 2, name |-> "Bob", room |-> 2]}

SerialRoomRecords ==
    {[id |-> 1, name |-> "<x>"], [id |-> 2, name |-> "A&B"], [id |-> None, name |-> "O'N"],
     [id |-> 1, name |-> "101"]}

InitSerial ==
    /\ students \in {List(s) : s \in SeqsUpTo(SerialStudentRecords, MaxStudents)}
    /\ rooms \in {List(r) : r \in SeqsUpTo(SerialRoomRecords, MaxRooms)}
    /\ combine_data(students, rooms).exc = NoExc
    /\ data = List(combine_data(students, rooms).ret)
    /\ op = "none"
    /\ ret = <<>>
    /\ exc = NoExc
    /\ pc = "idle"
    /\ argv = "none"
    /\ studentsPath = StudentsPath
    /\ roomsPath = RoomsPath
    /\ heap = NoHeap
    /\ studentsFile = NoFile
    /\ roomsFile = NoFile
    /\ fmt \in Exporters
    /\ dirExists = TRUE
    /\ outFile = Absent
    /\ calls = <<>>
    /\ exitCode = NoExit
    /\ exporters = InitialExporters
    /\ loaders = InitialLoaders

\* JSONExporter().export(data, output_path): the text is encoded as it is
\* written, and the file is left with the text in front of a character that
\* cannot be encoded
ExportJson ==
    /\ op = "none"
    /\ fmt = "json"
    /\ op' = "export_json"
    /\ LET text == json_dump(Items(data))
       IN IF encodable(text)
              THEN /\ outFile' = [state |-> "new", written |-> text, complete |-> TRUE]
                   /\ exc' = NoExc
          ELSE /\ outFile' = [state |-> "new", written |-> encoded_prefix(text),
                              complete |-> FALSE]
               /\ exc' = export_error("json", OSError(<<"'utf-8' codec can't encode character">>))
    /\ UNCHANGED <<students, rooms, ret, pc, argv, studentsFile, roomsFile, fmt, data,
                   dirExists, calls, exitCode>>
    /\ UNCHANGED factoryVars
    /\ UNCHANGED pathVars
    /\ UNCHANGED heapVars

\* json.load on the file JSONExporter wrote
LoadJson ==
    /\ op = "export_json"
    /\ exc = NoExc
    /\ op' = "json_load"
    /\ ret' = json_load(outFile.written)
    /\ UNCHANGED <<students, rooms, exc, pc, argv, studentsFile, roomsFile, fmt, data,
                   dirExists, outFile, calls, exitCode>>
    /\ UNCHANGED factoryVars
    /\ UNCHANGED pathVars
    /\ UNCHANGED heapVars

\* XMLExporter().export(data, output_path): minidom.parseString refuses the
\* reference to a lone surrogate before the file is opened
ExportXml ==
    /\ op = "none"
    /\ fmt = "xml"
    /\ op' = "export_xml"
    /\ LET text == xml_document(Items(data))
       IN IF encodable(text)
              THEN /\ outFile' = [state |-> "new", written |-> text, complete |-> TRUE]
                   /\ exc' = NoExc
          ELSE /\ exc' = export_error("xml", OSError(<<"reference to invalid character number">>))
               /\ UNCHANGED outFile
    /\ UNCHANGED <<students, rooms, ret, pc, argv, studentsFile, roomsFile, fmt, data,
                   dirExists, calls, exitCode>>
    /\ UNCHANGED factoryVars
    /\ UNCHANGED pathVars
    /\ UNCHANGED heapVars

\* an XML parser on the file XMLExporter wrote: the names of the rooms and
\* of the students
ParseXml ==
    /\ op = "export_xml"
    /\ exc = NoExc
    /\ op' = "xml_parse"
    /\ ret' = xml_names(outFile.written)
    /\ UNCHANGED <<students, rooms, exc, pc, argv, studentsFile, roomsFile, fmt, data,
                   dirExists, outFile, calls, exitCode>>
    /\ UNCHANGED factoryVars
    /\ UNCHANGED pathVars
    /\ UNCHANGED heapVars

NextSerial ==
    \/ ExportJson
    \/ LoadJson
    \/ ExportXml
    \/ ParseXml

SpecSerial == InitSerial /\ [][NextSerial]_vars

----------------------------------------------------------------------------
(* The loader applied to a path and the file found there *)

InitLoad ==
    /\ students = Scalar
    /\ rooms = Scalar
    /\ op = "none"
    /\ ret = Scalar
    /\ exc = NoExc
    /\ pc = "idle"
    /\ argv = "none"
    /\ studentsPath \in {StudentsPath, BlankPath}
    /\ roomsPath \in {RoomsPath, BlankPath}
    /\ heap = NoHeap
    /\ studentsFile \in (IF studentsPath # BlankPath THEN StudentFiles ELSE {NoFile})
    /\ roomsFile \in (IF roomsPath # BlankPath THEN RoomFiles ELSE {NoFile})
    /\ fmt = "json"
    /\ data = Scalar
    /\ dirExists = FALSE
    /\ outFile = Absent
    /\ calls = <<>>
    /\ exitCode = NoExit
    /\ exporters = InitialExporters
    /\ loaders = InitialLoaders

\* JSONDataLoader().load_students(file_path)
LoaderLoadStudents ==
    /\ op = "none"
    /\ op' = "load_students"
    /\ exc' = load_students(studentsFile, studentsPath).exc
    /\ ret' = load_students(studentsFile, studentsPath).ret
    /\ UNCHANGED <<students, rooms, pc, argv, studentsFile, roomsFile, fmt, data, dirExists,
                   outFile, calls, exitCode>>
    /\ UNCHANGED factoryVars
    /\ UNCHANGED pathVars
    /\ UNCHANGED heapVars

\* JSONDataLoader().load_rooms(file_path)
LoaderLoadRooms ==
    /\ op = "none"
    /\ op' = "load_rooms"
    /\ exc' = load_rooms(roomsFile, roomsPath).exc
    /\ ret' = load_rooms(roomsFile, roomsPath).ret
    /\ UNCHANGED <<students, rooms, pc, argv, studentsFile, roomsFile, fmt, data, dirExists,
                   outFile, calls, exitCode>>
    /\ UNCHANGED factoryVars
    /\ UNCHANGED pathVars
    /\ UNCHANGED heapVars

NextLoad ==
    \/ LoaderLoadStudents
    \/ LoaderLoadRooms

SpecLoad == InitLoad /\ [][NextLoad]_vars

----------------------------------------------------------------------------
(* The stage methods of the controller: a whole run, or _process_data or    *)
(* _export_data called on its own with what the caller hands over           *)

\* args.output_format is a plain field of ParsedArguments: a caller of
\* _export_data can hand over a format that is outside the parser's choices
DirectFormats == {"json", "yaml", "YAML"}

DirectData ==
    {Scalar, List(<<>>), List(<<[id |-> 1, name |-> "101", students |-> <<>>]>>),
     List(<<[id |-> 1, name |-> "101"]>>)}

InitExportData ==
    /\ students = Scalar
    /\ rooms = Scalar
    /\ op = "none"
    /\ ret = <<>>
    /\ exc = NoExc
    /\ pc = "create_exporter"
    /\ argv = "valid"
    /\ studentsPath = StudentsPath
    /\ roomsPath = RoomsPath
    /\ heap = NoHeap
    /\ studentsFile = NoFile
    /\ roomsFile = NoFile
    /\ fmt \in DirectFormats
    /\ data \in DirectData
    /\ dirExists \in BOOLEAN
    /\ outFile \in (IF dirExists THEN {Absent, OldFile} ELSE {Absent})
    /\ calls = <<>>
    /\ exitCode = NoExit
    /\ exporters = InitialExporters
    /\ loaders = InitialLoaders

\* _process_data entered with what a caller hands over: any raw values
InitProcessData ==
    /\ students \in {List(s) : s \in SeqsUpTo(RunStudentRecords, MaxStudents)} \cup {Scalar}
    /\ rooms \in {List(r) : r \in SeqsUpTo(RunRoomRecords, MaxRooms)} \cup {Scalar}
    /\ op = "none"
    /\ ret = <<>>
    /\ exc = NoExc
    /\ pc = "combine"
    /\ argv = "valid"
    /\ studentsPath = StudentsPath
    /\ roomsPath = RoomsPath
    /\ heap = NoHeap
    /\ studentsFile = NoFile
    /\ roomsFile = NoFile
    /\ fmt = "json"
    /\ data = Scalar
    /\ dirExists = TRUE
    /\ outFile = Absent
    /\ calls = <<>>
    /\ exitCode = NoExit
    /\ exporters = InitialExporters
    /\ loaders = InitialLoaders

InitStages == InitRun \/ InitProcessData \/ InitExportData

SpecStages == InitStages /\ [][NextRun]_vars

----------------------------------------------------------------------------
(* The two factories under a sequence of register and create calls *)

MaxCalls == 3

\* the identifiers the factories are called with, in more than one casing
FormatNames == {"json", "JSON", "xml", "yaml", "YAML"}
ExporterClasses == {"XMLExporter", "YAMLExporter"}
LoaderClasses == {"JSONDataLoader", "YAMLLoader"}

Call(fn, name, class) == [fn |-> fn, name |-> name, class |-> class]

InitRegistry ==
    /\ students = Scalar
    /\ rooms = Scalar
    /\ op = "none"
    /\ ret = NoClass
    /\ exc = NoExc
    /\ NoRun

RegisterExporter ==
    /\ Len(calls) < MaxCalls
    /\ \E format_name \in FormatNames, exporter_class \in ExporterClasses :
           /\ exporters' = register_exporter(exporters, format_name, exporter_class)
           /\ calls' = Append(calls, Call("register_exporter", format_name, exporter_class))
    /\ op' = "register_exporter"
    /\ ret' = NoClass
    /\ exc' = NoExc
    /\ UNCHANGED <<students, rooms, pc, argv, studentsFile, roomsFile, fmt, data, dirExists,
                   outFile, exitCode, loaders>>
    /\ UNCHANGED pathVars
    /\ UNCHANGED heapVars

RegisterLoader ==
    /\ Len(calls) < MaxCalls
    /\ \E format_name \in FormatNames, loader_class \in LoaderClasses :
           /\ loaders' = register_loader(loaders, format_name, loader_class)
           /\ calls' = Append(calls, Call("register_loader", format_name, loader_class))
    /\ op' = "register_loader"
    /\ ret' = NoClass
    /\ exc' = NoExc
    /\ UNCHANGED <<students, rooms, pc, argv, studentsFile, roomsFile, fmt, data, dirExists,
                   outFile, exitCode, exporters>>
    /\ UNCHANGED pathVars
    /\ UNCHANGED heapVars

FactoryCreateExporter ==
    /\ Len(calls) < MaxCalls
    /\ \E format_name \in FormatNames :
           /\ ret' = create_exporter(exporters, format_name).ret
           /\ exc' = create_exporter(exporters, format_name).exc
           /\ calls' = Append(calls, Call("create_exporter", format_name, NoClass))
    /\ op' = "create_exporter"
    /\ UNCHANGED <<students, rooms, pc, argv, studentsFile, roomsFile, fmt, data, dirExists,
                   outFile, exitCode, exporters, loaders>>
    /\ UNCHANGED pathVars
    /\ UNCHANGED heapVars

FactoryCreateLoader ==
    /\ Len(calls) < MaxCalls
    /\ \E format_name \in FormatNames :
           /\ ret' = create_loader(loaders, format_name).ret
           /\ exc' = create_loader(loaders, format_name).exc
           /\ calls' = Append(calls, Call("create_loader", format_name, NoClass))
    /\ op' = "create_loader"
    /\ UNCHANGED <<students, rooms, pc, argv, studentsFile, roomsFile, fmt, data, dirExists,
                   outFile, exitCode, exporters, loaders>>
    /\ UNCHANGED pathVars
    /\ UNCHANGED heapVars

NextRegistry ==
    \/ RegisterExporter
    \/ RegisterLoader
    \/ FactoryCreateExporter
    \/ FactoryCreateLoader

SpecRegistry == InitRegistry /\ [][NextRegistry]_vars

----------------------------------------------------------------------------
(* combine_data on objects: the lists and dicts of a call live in heap, the *)
(* address of an object is its index, a list holds the addresses of its     *)
(* elements and the 'students' entry of an output dict the address of a     *)
(* list. A new object is appended, so it never takes the place of another.  *)

MaxCombineCalls == 2

\* list.append(x) on the list at address a
list_append(h, a, x) == [h EXCEPT ![a] = List(Append(h[a].list, x))]

\* the value of a list of flat records
value_of_records(h, a) == List([i \in 1..Len(h[a].list) |-> h[h[a].list[i]]])

\* the value of a list of output records
value_of_result(h, a) ==
    [i \in 1..Len(h[a].list) |->
        LET d == h[h[a].list[i]]
        IN [id |-> d.id, name |-> d.name,
            students |-> Items(value_of_records(h, d.students))]]

\* the objects of the two arguments: the student records, the students
\* list, the room records, the rooms list
objects_of(s, r) ==
    s \o <<List([i \in 1..Len(s) |-> i])>>
      \o r \o <<List([j \in 1..Len(r) |-> Len(s) + 1 + j])>>

\* variant: one empty list is reused for every key that is missing
dict_get_list_Reused(h, students_by_room, room_id) ==
    IF room_id \in DOMAIN students_by_room
        THEN [heap |-> h, address |-> students_by_room[room_id]]
    ELSE IF \E a \in 1..Len(h) : h[a] = List(<<>>)
        THEN [heap |-> h, address |-> CHOOSE a \in 1..Len(h) : h[a] = List(<<>>)]
    ELSE [heap |-> Append(h, List(<<>>)), address |-> Len(h) + 1]

\* students_by_room.get(room_id, []): the list of the key, or a new list
dict_get_list(h, students_by_room, room_id) ==
    IF room_id \in DOMAIN students_by_room
        THEN [heap |-> h, address |-> students_by_room[room_id]]
    ELSE [heap |-> Append(h, List(<<>>)), address |-> Len(h) + 1]

\* the loop of _group_students_by_room from student i on; students_by_room
\* maps a room id to the address of its list
RECURSIVE group_students_objects(_, _, _, _, _, _)
group_students_objects(h, items, i, room_lookup, students_by_room, unassigned_students) ==
    IF i > Len(items) THEN [heap |-> h, by_room |-> students_by_room]
    ELSE LET student == h[items[i]]
             room_id == Get(student, "room", None)
             h1 == Append(h, [id |-> Get(student, "id", None),
                              name |-> Get(student, "name", "Unknown")])
             student_data == Len(h1)
             h2 == Append(h1, List(<<>>))
         IN IF is_assigned(room_id, room_lookup)
                THEN IF room_id \notin DOMAIN students_by_room
                         THEN group_students_objects(
                                  list_append(h2, Len(h2), student_data), items, i + 1,
                                  room_lookup, (room_id :> Len(h2)) @@ students_by_room,
                                  unassigned_students)
                     ELSE group_students_objects(
                              list_append(h1, students_by_room[room_id], student_data),
                              items, i + 1, room_lookup, students_by_room,
                              unassigned_students)
            ELSE group_students_objects(
                     list_append(h1, unassigned_students, student_data), items, i + 1,
                     room_lookup, students_by_room, unassigned_students)

\* the loop of _build_combined_rooms from room i on; result is the address
\* of the list the dicts are appended to
RECURSIVE build_combined_rooms_objects(_, _, _, _, _)
build_combined_rooms_objects(h, items, i, students_by_room, result) ==
    IF i > Len(items) THEN h
    ELSE LET room == h[items[i]]
             room_id == Get(room, "id", None)
             g == dict_get_list(h, students_by_room, room_id)
             h1 == Append(g.heap,
                       CombinedRoom_to_dict(room_id, Get(room, "name", "Unknown Room"),
                                            g.address))
         IN build_combined_rooms_objects(list_append(h1, result, Len(h1)), items, i + 1,
                                         students_by_room, result)

append_unassigned_objects(h, result, unassigned_students) ==
    IF h[unassigned_students].list # <<>>
        THEN LET h1 == Append(h, CombinedRoom_to_dict(None, "Unassigned Students",
                                                      unassigned_students))
             IN list_append(h1, result, Len(h1))
    ELSE h

\* [heap, exc, ret]: the objects after the call, the exception raised, the
\* address of the list returned
combine_data_objects(h, s, r) ==
    LET e == validate_input_data(value_of_records(h, s), value_of_records(h, r))
    IN IF e # NoExc THEN [heap |-> h, exc |-> e, ret |-> None]
       ELSE LET room_lookup == build_room_lookup(Items(value_of_records(h, r)))
                h1 == Append(h, List(<<>>))
                unassigned_students == Len(h1)
                g == group_students_objects(h1, h[s].list, 1, room_lookup, EmptyDict,
                                            unassigned_students)
                h2 == Append(g.heap, List(<<>>))
                result == Len(h2)
                h3 == build_combined_rooms_objects(h2, h[r].list, 1, g.by_room, result)
            IN [heap |-> append_unassigned_objects(h3, result, unassigned_students),
                exc |-> NoExc, ret |-> result]

HeapStudentRecords ==
    {[id |-> 1, name |-> "Alice", room |-> 1], [id |-> 2, name |-> "Bob", room |-> 1],
     [id |-> 2, name |-> "Bob", room |-> 9], [id |-> 1, name |-> "Alice"],
     [id |-> 1, room |-> 1], Scalar}

HeapRoomRecords ==
    {[id |-> 1, name |-> "101"], [id |-> 2, name |-> "102"], [id |-> None, name |-> "Annex"],
     [id |-> 1]}

\* where objects_of puts the two lists
StudentsAddress == Len(Items(students)) + 1
RoomsAddress == Len(Items(students)) + Len(Items(rooms)) + 2

InitObjects ==
    /\ students \in {List(s) : s \in SeqsUpTo(HeapStudentRecords, MaxStudents)}
    /\ rooms \in {List(r) : r \in SeqsUpTo(HeapRoomRecords, MaxRooms)}
    /\ heap = objects_of(Items(students), Items(rooms))
    /\ op = "none"
    /\ ret = None
    /\ exc = NoExc
    /\ pc = "idle"
    /\ argv = "none"
    /\ studentsFile = NoFile
    /\ roomsFile = NoFile
    /\ fmt = "json"
    /\ data = Scalar
    /\ dirExists = FALSE
    /\ outFile = Absent
    /\ calls = <<>>
    /\ exitCode = NoExit
    /\ exporters = InitialExporters
    /\ loaders = InitialLoaders
    /\ studentsPath = StudentsPath
    /\ roomsPath = RoomsPath

\* service.combine_data(students, rooms), on the same two lists each time;
\* calls keeps what every call raised and returned
CombineDataObjects ==
    /\ Len(calls) < MaxCombineCalls
    /\ LET r == combine_data_objects(heap, StudentsAddress, RoomsAddress)
       IN /\ heap' = r.heap
          /\ exc' = r.exc
          /\ ret' = r.ret
          /\ calls' = Append(calls, [exc |-> r.exc, ret |-> r.ret])
    /\ op' = "combine_data"
    /\ UNCHANGED <<students, rooms, pc, argv, studentsFile, roomsFile, fmt, data, dirExists,
                   outFile, exitCode>>
    /\ UNCHANGED factoryVars
    /\ UNCHANGED pathVars

NextObjects == CombineDataObjects

SpecObjects == InitObjects /\ [][NextObjects]_vars

----------------------------------------------------------------------------
(* Vocabulary of the properties, stated on the inputs and outputs directly *)

\* every element is a record with 'id' and 'name'
WellFormed(v) ==
    /\ IsList(v)
    /\ \A i \in 1..Len(Items(v)) :
           IsDict(Items(v)[i]) /\ Has(Items(v)[i], "id") /\ Has(Items(v)[i], "name")

\* two elements of a list of records share the same non-null id
SharesId(v) ==
    /\ IsList(v)
    /\ \E i, j \in 1..Len(Items(v)) :
           /\ i < j
           /\ IsDict(Items(v)[i]) /\ Has(Items(v)[i], "id")
           /\ IsDict(Items(v)[j]) /\ Has(Items(v)[j], "id")
           /\ Items(v)[i].id # None
           /\ Items(v)[i].id = Items(v)[j].id

ValidInput == WellFormed(students) /\ WellFormed(rooms)
                  /\ ~SharesId(students) /\ ~SharesId(rooms)

S == Items(students)
R == Items(rooms)

\* the student's room reference, null when the key is absent
RoomOf(st) == IF Has(st, "room") THEN st.room ELSE None

\* the reference is null, or is not the id of any room
Unresolved(st) ==
    RoomOf(st) = None \/ \A j \in 1..Len(R) : R[j].id # RoomOf(st)

AnyUnassigned == \E i \in 1..Len(S) : Unresolved(S[i])

Reduced(st) == [id |-> st.id, name |-> st.name]

\* the students satisfying P, reduced to {id, name}, in input order
Subsequence(items, P(_)) ==
    LET kept == SelectSeq(items, P)
    IN [i \in 1..Len(kept) |-> Reduced(kept[i])]

Combined == op = "combine_data" /\ ValidInput

IsUnassignedBucket(rec) == rec.id = None /\ rec.name = "Unassigned Students"

----------------------------------------------------------------------------
(* C1: on valid input combine_data returns len(R) + 1 records when some    *)
(* student has a null or dangling room reference, and len(R) otherwise.    *)
C1_OutputLength ==
    Combined =>
        /\ exc = NoExc
        /\ Len(ret) = Len(R) + (IF AnyUnassigned THEN 1 ELSE 0)

C1_Witness ==
    /\ Combined
    /\ Len(R) = 2
    /\ \E i \in 1..Len(S) : Has(S[i], "room") /\ S[i].room = 9
    /\ Len(ret) = 3

(* C2: the first len(R) records carry the ids and names of the input rooms *)
(* position by position; the unassigned bucket, when present, is last.     *)
C2_RoomOrder ==
    Combined =>
        /\ Len(ret) >= Len(R)
        /\ \A i \in 1..Len(R) : ret[i].id = R[i].id /\ ret[i].name = R[i].name
        /\ Len(ret) <= Len(R) + 1
        /\ Len(ret) = Len(R) + 1 <=> AnyUnassigned
        /\ AnyUnassigned => IsUnassignedBucket(ret[Len(ret)])

C2_Witness ==
    /\ Combined
    /\ Len(R) = 2 /\ R[1].id = 2 /\ R[2].id = 1 /\ R[1].name = "102"
    /\ AnyUnassigned
    /\ ret[1].id = 2 /\ ret[2].id = 1 /\ ret[3].id = None

C4_UnassignedBucket ==
    Combined =>
        IF AnyUnassigned
            THEN /\ Len(ret) = Len(R) + 1
                 /\ IsUnassignedBucket(ret[Len(ret)])
                 /\ ret[Len(ret)].students = Subsequence(S, Unresolved)
        ELSE Len(ret) = Len(R)

C4_Witness ==
    /\ Combined
    /\ Len(S) = 2 /\ ~Has(S[1], "room") /\ Has(S[2], "room") /\ S[2].room = 9
    /\ Len(R) = 1
    /\ ret[2].students = <<Reduced(S[1]), Reduced(S[2])>>

Dangling(st) == Has(st, "room") /\ \A j \in 1..Len(R) : R[j].id # st.room

Nullified(items) ==
    [i \in 1..Len(items) |->
        IF Dangling(items[i]) THEN [items[i] EXCEPT !.room = None] ELSE items[i]]

(* C5: replacing every room reference that is not the id of an input room  *)
(* by null leaves the output unchanged, and is never an error.             *)
C5_DanglingIsNull ==
    Combined =>
        /\ exc = NoExc
        /\ combine_data(List(Nullified(S)), rooms).exc = NoExc
        /\ ret = combine_data(List(Nullified(S)), rooms).ret

C5_Witness ==
    /\ Combined
    /\ Len(R) >= 1
    /\ \E i \in 1..Len(S) : Dangling(S[i]) /\ S[i].room = 9
    /\ \E i \in 1..Len(S) : Has(S[i], "room") /\ S[i].room = R[1].id /\ S[i].room # None
    /\ exc = NoExc

NamesDuplicateCollection ==
    \/ exc.msg = <<"Duplicate room IDs found">> /\ SharesId(rooms)
    \/ exc.msg = <<"Duplicate student IDs found">> /\ SharesId(students)

ElementOk(e) == IsDict(e) /\ Has(e, "id") /\ Has(e, "name")

FirstOffending(items) ==
    CHOOSE i \in 1..Len(items) :
        ~ElementOk(items[i]) /\ \A j \in 1..(i - 1) : ElementOk(items[j])

Mentions(e, piece) == \E k \in 1..Len(e.msg) : e.msg[k] = piece

ValidatorPost(v, e) ==
    IF WellFormed(v) THEN e = NoExc
    ELSE /\ e.type = "ValidationError"
         /\ IsList(v) =>
              LET i == FirstOffending(Items(v))
              IN /\ Mentions(e, Str(i - 1))
                 /\ IsDict(Items(v)[i]) =>
                      \E f \in {"id", "name"} : ~Has(Items(v)[i], f) /\ Mentions(e, f)

(* C7: validate_students_data and validate_rooms_data fail with            *)
(* ValidationError when the input is not a list, an element is not a       *)
(* record, or an element lacks 'id' or 'name'; the error names the index   *)
(* of the first offending element and a field it lacks; the input is left  *)
(* as it was; when every element is a record with both keys they succeed.  *)
C7_StructuralValidation ==
    [][ /\ op' = "validate_students_data" =>
              students' = students /\ ValidatorPost(students', exc')
        /\ op' = "validate_rooms_data" =>
              rooms' = rooms /\ ValidatorPost(rooms', exc') ]_vars

C7_Witness ==
    /\ op = "validate_students_data"
    /\ IsList(students) /\ Len(S) = 2
    /\ ElementOk(S[1]) /\ IsDict(S[2]) /\ Has(S[2], "id") /\ ~Has(S[2], "name")
    /\ exc = ValidationError(<<"Student at index ", "1", " missing required '", "name", "' field">>)

PartialOutput == outFile.state = "new" /\ ~outFile.complete

(* C8: after a run that ended in failure, at whatever stage, the           *)
(* destination does not hold a truncated or partially written file.        *)
C8_NoPartialOutput ==
    (pc = "done" /\ exitCode = 1) => ~PartialOutput

RecordOk(e) == IsDict(e) /\ Has(e, "id") /\ Has(e, "name") /\ Has(e, "students")

ExportOk(d) == IsList(d) /\ \A i \in 1..Len(Items(d)) : RecordOk(Items(d)[i])

FirstBadRecord(items) ==
    CHOOSE i \in 1..Len(items) :
        ~RecordOk(items[i]) /\ \A j \in 1..(i - 1) : RecordOk(items[j])

Stages == <<"load_students", "load_rooms", "combine_data", "create_exporter", "export", "open">>

IsPrefix(s, full) == Len(s) <= Len(full) /\ \A i \in 1..Len(s) : s[i] = full[i]

Loadable(file) == file.exists /\ file.parses /\ WellFormed(file.value)

Combinable ==
    /\ Loadable(studentsFile) /\ Loadable(roomsFile)
    /\ ~SharesId(studentsFile.value) /\ ~SharesId(roomsFile.value)

(* C10: the stages of a run execute in the order load students, load       *)
(* rooms, combine, export, each at most once and only after every earlier  *)
(* stage succeeded: rooms are not loaded when loading students fails,      *)
(* combine is not invoked when a load fails, and no exporter is created    *)
(* and the destination is not opened when a load or the combination fails. *)
C10_StageOrder ==
    /\ IsPrefix(calls, Stages)
    /\ argv # "valid" => calls = <<>>
    /\ ~Loadable(studentsFile) => Len(calls) <= 1
    /\ ~Loadable(roomsFile) => Len(calls) <= 2
    /\ ~Combinable => Len(calls) <= 3 /\ outFile.state # "new"
    /\ (pc = "done" /\ exitCode = 0 /\ argv = "valid") => calls = Stages

C10_Witness ==
    /\ pc = "done" /\ exitCode = 1
    /\ Loadable(studentsFile) /\ Loadable(roomsFile)
    /\ SharesId(studentsFile.value)
    /\ calls = <<"load_students", "load_rooms", "combine_data">>
    /\ outFile = OldFile

Interrupted == exc.type = "KeyboardInterrupt"

AllStagesSucceeded ==
    /\ calls = Stages
    /\ exc = NoExc
    /\ outFile.state = "new" /\ outFile.complete

HandledErrors == {"DataLoadError", "ValidationError", "DataExportError", "UnsupportedFormatError"}

C11_Original ==
    pc = "done" =>
        /\ exitCode \in {0, 1, 130}
        /\ exitCode = 0 <=> AllStagesSucceeded
        /\ exitCode = 130 <=> Interrupted
        /\ (argv \in UsageErrors /\ ~Interrupted) => exitCode = 1

(* C11: run returns 0 exactly when load, combine and export all succeeded  *)
(* or the command line asked for the help or the version text, 2 on an     *)
(* argument error (required option missing, unknown format, --verbose with *)
(* --quiet), 1 on every other handled error, 130 on a user interrupt that  *)
(* arrives inside the try body, and no other value; an interrupt arriving  *)
(* while the error is reported leaves run as an exception, with no value.  *)
C11_ExitCodes ==
    /\ pc = "done" =>
           /\ exitCode \in {0, 1, 2, 130}
           /\ exitCode = 130 <=> Interrupted
           /\ exitCode = 2 <=> (argv \in UsageErrors /\ ~Interrupted)
           /\ exitCode = 0 <=> (~Interrupted /\ (argv \in {"help", "version"} \/ AllStagesSucceeded))
           /\ exitCode = 1 <=> (argv = "valid" /\ exc.type \in HandledErrors)
    /\ pc = "raised" => (exitCode = NoExit /\ Interrupted)
    /\ pc \notin {"done", "raised"} => exitCode = NoExit

C11_Witness ==
    /\ pc = "done"
    /\ argv = "invalid_format"
    /\ exitCode = 2

LastCall == calls[Len(calls)]

Registered(registry, name) == \E i \in 1..Len(registry) : registry[i].key = lower(name)

\* the last call was a create call for an identifier that is not registered
UnregisteredCreate ==
    /\ calls # <<>>
    /\ \/ LastCall.fn = "create_exporter" /\ ~Registered(exporters, LastCall.name)
       \/ LastCall.fn = "create_loader" /\ ~Registered(loaders, LastCall.name)

RegistryOf(fn) == IF fn = "create_exporter" THEN exporters ELSE loaders

InInitialRegistryState == exporters = InitialExporters /\ loaders = InitialLoaders

C12_Original ==
    UnregisteredCreate =>
        /\ exc.type = "UnsupportedFormatError"
        /\ exc.format_name = LastCall.name
        /\ exc.supported_formats = keys(RegistryOf(LastCall.fn))
        /\ (InInitialRegistryState /\ LastCall.name = "yaml")
               => exc.supported_formats = <<"json", "xml">>

(* C12: create_exporter and create_loader, given an identifier whose        *)
(* lower-cased form is not registered, fail with UnsupportedFormatError     *)
(* carrying the requested name as given and the full list of the currently *)
(* registered identifiers of that factory; in the initial registry state    *)
(* requesting "yaml" lists ["json", "xml"] from create_exporter and         *)
(* ["json"] from create_loader.                                             *)
C12_UnsupportedFormat ==
    UnregisteredCreate =>
        /\ exc.type = "UnsupportedFormatError"
        /\ exc.format_name = LastCall.name
        /\ exc.supported_formats = keys(RegistryOf(LastCall.fn))
        /\ (InInitialRegistryState /\ LastCall.name = "yaml")
               => exc.supported_formats =
                      (IF LastCall.fn = "create_exporter" THEN <<"json", "xml">> ELSE <<"json">>)

C12_Witness ==
    /\ calls = <<Call("create_loader", "yaml", NoClass)>>
    /\ exc.type = "UnsupportedFormatError"
    /\ exc.format_name = "yaml"
    /\ exc.supported_formats = <<"json">>

\* the class most recently registered under key by calls to fn, the initial
\* one when there was no such call, none when there is neither
LastRegistered(fn, key, initial) ==
    LET registrations == {i \in 1..Len(calls) : calls[i].fn = fn /\ lower(calls[i].name) = key}
    IN IF registrations = {} THEN dict_get(initial, key)
       ELSE calls[CHOOSE i \in registrations : \A j \in registrations : j <= i].class

OneEntryPerKey(registry) ==
    \A i, j \in 1..Len(registry) : registry[i].key = registry[j].key => i = j

(* C13: after any sequence of register_exporter / register_loader calls,   *)
(* create_X(f) returns an instance of the class most recently registered   *)
(* under lower(f), for every casing of f; re-registering an identifier      *)
(* replaces its class without adding a second entry and leaves the classes  *)
(* of the other identifiers unchanged.                                      *)
C13_MostRecentRegistration ==
    /\ \A f \in FormatNames :
           /\ create_exporter(exporters, f).ret
                  = LastRegistered("register_exporter", lower(f), InitialExporters)
           /\ create_loader(loaders, f).ret
                  = LastRegistered("register_loader", lower(f), InitialLoaders)
    /\ OneEntryPerKey(exporters) /\ OneEntryPerKey(loaders)
    /\ (calls # <<>> /\ LastCall.fn = "create_exporter")
           => ret = LastRegistered("register_exporter", lower(LastCall.name), InitialExporters)
    /\ (calls # <<>> /\ LastCall.fn = "create_loader")
           => ret = LastRegistered("register_loader", lower(LastCall.name), InitialLoaders)

C13_Witness ==
    /\ calls = <<Call("register_exporter", "json", "XMLExporter"),
                 Call("register_exporter", "JSON", "YAMLExporter"),
                 Call("create_exporter", "json", NoClass)>>
    /\ ret = "YAMLExporter"
    /\ exc = NoExc
    /\ exporters = <<[key |-> "json", class |-> "YAMLExporter"],
                     [key |-> "xml", class |-> "XMLExporter"]>>

\* the error run() hands to _handle_error
Reported == pc = "handle_error"

\* the file whose load failed: the one named in the last stage call
FailedFilePath == IF calls[Len(calls)] = "load_students" THEN studentsPath ELSE roomsPath

(* C14: a DataLoadError that reaches the controller's error reporting       *)
(* carries the path of the input file that failed, and a DataExportError   *)
(* carries the output path, so that the path line is printed.              *)
C14_PathCarried ==
    Reported =>
        /\ exc.type = "DataLoadError" => exc.path = FailedFilePath
        /\ exc.type = "DataExportError" => exc.path = OutputPath

\* msg holds the pieces of part, in order and next to each other
Contains(msg, part) ==
    \E i \in 0..(Len(msg) - Len(part)) : SubSeq(msg, i + 1, i + Len(part)) = part

\* the message of the first error raised while loading the given file
LoadRootCause(kind, file, path) ==
    IF strip(path) = "" THEN <<"File path must be a non-empty string">>
    ELSE IF ~file.exists
        THEN <<(IF kind = "students" THEN "Students file not found: "
                ELSE "Rooms file not found: "), path>>
    ELSE IF ~file.parses THEN <<"Expecting value: line 1 column 1 (char 0)">>
    ELSE IF kind = "students" THEN validate_students_data(file.value).msg
    ELSE validate_rooms_data(file.value).msg

\* the messages of the errors raised inside export(), by the checks of the
\* records or by the operating system and the encoder
ExportRootCauses ==
    {<<"[Errno 13] Permission denied">>, <<"[Errno 28] No space left on device">>,
     <<"'utf-8' codec can't encode character">>, <<"reference to invalid character number">>,
     validate_output_data(fmt, data).msg}

ExportSteps == {"export_validate", "mkdir", "open", "write"}

(* C15: every failure inside the load stage surfaces from the controller   *)
(* as a DataLoadError and every failure inside the export stage, other     *)
(* than an unknown format, as a DataExportError, whatever the type of the  *)
(* root cause, and the message of the surfaced error contains the message  *)
(* of the original error unchanged; an unknown format surfaces as          *)
(* UnsupportedFormatError with the requested name and the registered list. *)
C15_StageErrors ==
    [][ /\ (pc = "load_students" /\ pc' = "handle_error") =>
               /\ exc'.type = "DataLoadError"
               /\ Contains(exc'.msg, LoadRootCause("students", studentsFile, studentsPath))
        /\ (pc = "load_rooms" /\ pc' = "handle_error") =>
               /\ exc'.type = "DataLoadError"
               /\ Contains(exc'.msg, LoadRootCause("rooms", roomsFile, roomsPath))
        /\ (pc \in ExportSteps /\ pc' = "export_raised") =>
               /\ exc'.type = "DataExportError"
               /\ \E m \in ExportRootCauses : m # <<>> /\ Contains(exc'.msg, m)
        /\ (pc = "export_raised" /\ pc' = "handle_error") =>
               /\ exc'.type = "DataExportError"
               /\ Contains(exc'.msg, exc.msg)
        /\ (pc = "create_exporter" /\ pc' = "handle_error") =>
               /\ ~Registered(exporters, fmt)
               /\ exc' = UnsupportedFormatError(fmt, keys(exporters))
        /\ (pc \in ExportSteps /\ pc' \notin {pc, "done"}) =>
               pc' \in ExportSteps \cup {"export_raised", "export_returned"}
      ]_vars

C15_Witness ==
    /\ pc = "handle_error"
    /\ studentsPath = BlankPath
    /\ exc = DataLoadError(<<"Unexpected error during data loading: ",
                             "File path must be a non-empty string">>, NoPath)

\* the error the combination logic raises for the values the stage was given
RaisedByCombine == combine_data(students, rooms).exc

CombineFailed == pc = "combine" /\ pc' = "handle_error"

C16_Original ==
    [][CombineFailed => exc' = RaisedByCombine]_vars

(* C16: a ValidationError raised inside the combination logic (structural  *)
(* check or duplicate-id check) keeps its type and its message up to the   *)
(* controller, which reports a ValidationError whose message is "Data      *)
(* processing failed: " followed by exactly the message that was raised.   *)
C16_ValidationErrorKept ==
    [][CombineFailed =>
           /\ RaisedByCombine.type = "ValidationError"
           /\ exc' = ValidationError(<<"Data processing failed: ">> \o RaisedByCombine.msg)
      ]_vars

C16_Witness ==
    /\ pc = "handle_error"
    /\ calls = <<"load_students", "load_rooms", "combine_data">>
    /\ SharesId(students)
    /\ exc = ValidationError(<<"Data processing failed: ", "Duplicate student IDs found">>)

\* what the claim says of one load call, given the path, the file there and
\* the structural check that applies to its content
LoaderPost(file, path, structural) ==
    IF Loadable(file)
        THEN exc = NoExc /\ ret = file.value
    ELSE /\ exc.type = "DataLoadError"
         /\ exc.path = path
         /\ ~file.exists => Contains(exc.msg, <<path>>)
         /\ (file.exists /\ ~file.parses) =>
                Contains(exc.msg, <<"Expecting value: line 1 column 1 (char 0)">>)
         /\ (file.exists /\ file.parses) => Contains(exc.msg, structural.msg)

(* C17: load_students and load_rooms fail with a DataLoadError whose       *)
(* file_path is the given path: the message names the path when no file is *)
(* there, and the underlying cause when the content is not valid JSON, is  *)
(* not a top-level array or holds an element that is not a record with id  *)
(* and name; on success they return the parsed list unchanged.             *)
C17_LoaderErrors ==
    /\ op = "load_students" =>
           LoaderPost(studentsFile, studentsPath, validate_students_data(studentsFile.value))
    /\ op = "load_rooms" =>
           LoaderPost(roomsFile, roomsPath, validate_rooms_data(roomsFile.value))

\* the records as a parser holds them: the names as their characters
StudentAsRead(st) == [id |-> st.id, name |-> Chars(st.name)]

RoomAsRead(record) ==
    [id |-> record.id, name |-> Chars(record.name),
     students |-> [k \in 1..Len(record.students) |-> StudentAsRead(record.students[k])]]

AsRead(items) == [i \in 1..Len(items) |-> RoomAsRead(items[i])]

(* C18: for every output of combine_data, exporting it with the JSON       *)
(* exporter and parsing the written file back yields a list equal to it,   *)
(* record by record: same length, same room ids (null included), same      *)
(* names, same student {id, name} records in the same order.               *)
C18_JsonRoundTrip ==
    /\ op = "export_json" => (exc = NoExc /\ outFile.complete)
    /\ op = "json_load" => ret = AsRead(Items(data))

\* the names of a document in document order: each room's name, then the
\* names of its students
RECURSIVE NamesOf(_)
NamesOf(items) ==
    IF items = <<>> THEN <<>>
    ELSE <<Head(items).name>>
         \o [k \in 1..Len(Head(items).students) |-> Head(items).students[k].name]
         \o NamesOf(Tail(items))

\* the five characters replaced by their entity references, once
RECURSIVE EscapedOnce(_)
EscapedOnce(chars) ==
    IF chars = <<>> THEN <<>>
    ELSE (CASE Head(chars) = "&" -> <<"&", "amp;">>
            [] Head(chars) = "<" -> <<"&", "lt;">>
            [] Head(chars) = ">" -> <<"&", "gt;">>
            [] Head(chars) = "\"" -> <<"&", "quot;">>
            [] Head(chars) = "'" -> <<"&", "apos;">>
            [] OTHER -> <<Head(chars)>>)
         \o EscapedOnce(Tail(chars))

(* C19: in the XML output each room name and each student name is written  *)
(* with the entity escaping of & < > " ' applied exactly once (A&B is      *)
(* written A&amp;B), and an XML parser recovers the original name.         *)
C19_XmlEscapedOnce ==
    LET names == NamesOf(Items(data))
    IN /\ (op = "export_xml" /\ exc = NoExc) =>
              name_texts(outFile.written)
                  = [i \in 1..Len(names) |-> EscapedOnce(Chars(names[i]))]
       /\ op = "xml_parse" => ret = [i \in 1..Len(names) |-> Chars(names[i])]

\* a record one of whose fields the field validators refuse
BreaksFieldRule(e) ==
    \/ validate_positive_integer(IdObject(e.id), "id") # NoExc
    \/ validate_non_empty_string(StrObject(e.name), "name") # NoExc

\* the error names the offending value of some record that breaks a rule
NamesOffendingValue(items) ==
    \E i \in 1..Len(items) :
        \/ validate_positive_integer(IdObject(items[i].id), "id") # NoExc
               /\ Mentions(exc, Str(items[i].id))
        \/ validate_non_empty_string(StrObject(items[i].name), "name") # NoExc
               /\ Mentions(exc, items[i].name)

FieldCheck(items) ==
    (\E i \in 1..Len(items) : BreaksFieldRule(items[i])) =>
        (exc.type = "ValidationError" /\ NamesOffendingValue(items))

(* C20: the raw-data checks apply the field validators: validating raw     *)
(* student or room records, and therefore combine_data, fails with a       *)
(* ValidationError naming the field and the offending value when the id of *)
(* a record is not a positive integer or its name is empty or blank.       *)
C20_FieldValidatorsReused ==
    /\ op = "validate_students_data" => FieldCheck(S)
    /\ op = "validate_rooms_data" => FieldCheck(R)
    /\ op = "combine_data" => (FieldCheck(S) /\ FieldCheck(R))

----------------------------------------------------------------------------
\* the arguments the constructor received: from_dict fills in the missing
\* keys, the direct call only the room
GivenId == Get(data, "id", NoneObject)
GivenName == Get(data, "name", StrObject(""))
GivenRoom == Get(data, "room", NoneObject)

\* an integer > 0 (True is the integer 1 in Python)
PositiveInteger(v) == v.type \in {"int", "bool"} /\ v.value > 0

\* a string with at least one non-whitespace character
NonBlankString(v) == v.type = "str" /\ v.value \notin {"", " ", "  "}

StudentFieldsOk ==
    /\ PositiveInteger(GivenId)
    /\ NonBlankString(GivenName)
    /\ (GivenRoom = NoneObject \/ PositiveInteger(GivenRoom))

RoomFieldsOk == PositiveInteger(GivenId) /\ NonBlankString(GivenName)

Constructed == exc = NoExc

(* C21: constructing a Student or a Room, directly or through from_dict,   *)
(* fails with ValidationError unless id is an integer > 0 and name is a    *)
(* string with a non-whitespace character and, for a Student, room is null *)
(* or a positive integer; otherwise it yields an instance holding the      *)
(* given fields, so every instance has id > 0 and a non-blank name.        *)
C21_ModelInvariants ==
    /\ op \in {"Student", "Student.from_dict"} =>
           /\ Constructed <=> StudentFieldsOk
           /\ ~Constructed => (exc.type = "ValidationError" /\ ret = NoInstance)
           /\ Constructed =>
                  /\ ret = [id |-> GivenId, name |-> GivenName, room |-> GivenRoom]
                  /\ ret.id.value > 0
                  /\ NonBlankString(ret.name)
    /\ op \in {"Room", "Room.from_dict"} =>
           /\ Constructed <=> RoomFieldsOk
           /\ ~Constructed => (exc.type = "ValidationError" /\ ret = NoInstance)
           /\ Constructed =>
                  /\ ret = [id |-> GivenId, name |-> GivenName]
                  /\ ret.id.value > 0
                  /\ NonBlankString(ret.name)

\* from_dict refused a student whose only fault is a room reference of 0
C21_Witness ==
    /\ op = "Student.from_dict"
    /\ PositiveInteger(GivenId)
    /\ NonBlankString(GivenName)
    /\ GivenRoom = IntObject(0)
    /\ exc = ValidationError(<<"Room ID", " must be a positive integer, got: ", "0">>)

----------------------------------------------------------------------------
(* C22: in every output of combine_data a record has id = null only if it  *)
(* is the synthetic trailing bucket: a record with a null id is the last   *)
(* record (so there is at most one) and its name is "Unassigned Students". *)
C22_NullIdOnlyBucket ==
    (op = "combine_data" /\ exc = NoExc) =>
        \A i \in 1..Len(ret) :
            ret[i].id = None => (i = Len(ret) /\ ret[i].name = "Unassigned Students")

----------------------------------------------------------------------------
\* the error is the structural error of the students / of the rooms
AboutStudentsStructure(e) ==
    /\ e.type = "ValidationError"
    /\ e.msg[1] \in {"Students data must be a list", "Student at index "}

AboutRoomsStructure(e) ==
    /\ e.type = "ValidationError"
    /\ e.msg[1] \in {"Rooms data must be a list", "Room at index "}

(* C23: validation in combine_data has a fixed precedence: a structural    *)
(* error in students is reported before one in rooms, any structural error *)
(* before any duplicate-id error, and the duplicate of rooms before the    *)
(* duplicate of students; a failing call produces no output record.        *)
C23_ValidationPrecedence ==
    op = "combine_data" =>
        /\ ~WellFormed(students) => AboutStudentsStructure(exc)
        /\ (WellFormed(students) /\ ~WellFormed(rooms)) => AboutRoomsStructure(exc)
        /\ (WellFormed(students) /\ WellFormed(rooms) /\ SharesId(rooms)) =>
               exc = ValidationError(<<"Duplicate room IDs found">>)
        /\ (WellFormed(students) /\ WellFormed(rooms) /\ ~SharesId(rooms)
                /\ SharesId(students)) =>
               exc = ValidationError(<<"Duplicate student IDs found">>)
        /\ exc # NoExc => ret = <<>>

----------------------------------------------------------------------------
\* the objects of the two arguments are what they were before the calls
InputsAsBefore ==
    SubSeq(heap, 1, RoomsAddress) = objects_of(Items(students), Items(rooms))

\* the calls that returned, and the output dicts of such a call
Returned == {k \in 1..Len(calls) : calls[k].exc = NoExc}
OutputRecords(k) == Range(heap[calls[k].ret].list)

\* no list of students belongs to two output dicts, of one call or of two
ListsNotShared ==
    \A k1, k2 \in Returned :
        \A a \in OutputRecords(k1), b \in OutputRecords(k2) :
            a # b => heap[a].students # heap[b].students

\* every call ended the same way and returned an equal value
SameOutcome ==
    \A k1, k2 \in 1..Len(calls) :
        /\ calls[k1].exc = calls[k2].exc
        /\ (k1 \in Returned /\ k2 \in Returned) =>
               value_of_result(heap, calls[k1].ret) = value_of_result(heap, calls[k2].ret)

(* C24: after any call of combine_data, successful or failing, the         *)
(* students and rooms lists and every record in them are as they were      *)
(* before the call; two calls with equal inputs end the same way and       *)
(* return equal outputs; no two output records share their list of         *)
(* students.                                                               *)
C24_InputsKeptDeterministic ==
    op = "combine_data" =>
        /\ InputsAsBefore
        /\ SameOutcome
        /\ ListsNotShared

\* two calls returned three records each: a room with a student, a room
\* without any, and the bucket of the unassigned
C24_Witness ==
    /\ Len(calls) = 2
    /\ Returned = {1, 2}
    /\ calls[1].ret # calls[2].ret
    /\ Len(Items(rooms)) = 2
    /\ Len(heap[ret].list) = 3
    /\ \E k \in 1..3 : value_of_result(heap, ret)[k].students = <<>>
    /\ value_of_result(heap, ret)[3].id = None
    /\ Len(value_of_result(heap, calls[1].ret)[1].students) = 1

====
